---- MODULE Spec2Model ----
(***************************************************************************)
(* Model of the foozball backend: the TrueSkill rating service             *)
(* (app/services/trueskill_service.py), the team identity key               *)
(* (app/models/team.py) and the request handlers that settle games         *)
(* (app/api/v1/teams.py, teamgames.py, games.py, players.py) over a        *)
(* transactional database.                                                 *)
(*                                                                         *)
(* Floats are modelled in fixed point: a rating value x is the integer     *)
(* 1000 * x, a variance is 1000000 * x.                                    *)
(***************************************************************************)
EXTENDS Integers, Naturals, Sequences, FiniteSets, TLC

VARIABLES
    players,           \* committed rows of table players: id -> row
    teams,             \* committed rows of table teams: id -> row
    team_games,        \* committed rows of table team_games: id -> row
    games,             \* committed rows of table games: id -> row
    rating_history,    \* committed rows of table rating_history (a set)
    team_id_seq,       \* next value of the teams.id sequence
    team_game_id_seq,  \* next value of the team_games.id sequence
    game_id_seq,       \* next value of the games.id sequence
    sess,              \* per request slot: the open SQLAlchemy session
    resp,              \* the last response sent
    done_n,            \* number of responses sent
    limit,             \* number of requests that will be served
    svc_call,          \* last direct call of a TrueSkillService update
    svc_res,           \* its outcome: "none", "ok" or "ValueError"
    svc_n,             \* number of direct service calls made
    key_in,            \* arguments of Team.create_team_key
    key_out,           \* result of create_team_key(a, b)
    key_rev,           \* result of create_team_key(b, a)
    now,               \* the clock, in hours
    stat_call,         \* last statistics query: endpoint and parameters
    stat_out,          \* its response
    stat_n,            \* number of statistics queries answered
    summary            \* the running get_statistics_summary request

vars == <<players, teams, team_games, games, rating_history, team_id_seq,
          team_game_id_seq, game_id_seq, sess, resp, done_n, limit,
          svc_call, svc_res, svc_n, key_in, key_out, key_rev,
          now, stat_call, stat_out, stat_n, summary>>

dbVars == <<players, teams, team_games, games, rating_history, team_id_seq,
            team_game_id_seq, game_id_seq, sess, resp, done_n, limit>>
svcVars == <<svc_call, svc_res, svc_n>>
keyVars == <<key_in, key_out, key_rev>>
statVars == <<now, stat_call, stat_out, stat_n, summary>>

-----------------------------------------------------------------------------
(* Bounds *)

NumPlayers == 4
MaxKeyId == 8
MaxSvcCalls == 2
MaxRequests == 2
MaxSeqRequests == 3
MaxHistory == 11
MaxEntries == 3
MaxH2HGames == 3
MaxPage == 2
MaxPageSize == 2
MaxPlayed == 4
MuSteps == 4

Players == 1..NumPlayers
Slots == {1, 2}

-----------------------------------------------------------------------------
(* TrueSkill environment, trueskill_service.py:20-22, in thousandths *)

MU == 25000
SIGMA == 8333
BETA == 4167
TAU == 83

ValueError == "ValueError"

\* Time is counted in hours; Now0 is noon of day 100.
Day == 24
Now0 == 100 * Day + 12
NoRow == [none |-> TRUE]

-----------------------------------------------------------------------------
(* Fixed-point arithmetic *)

\* Newton's iteration downwards from x >= sqrt(n); y is the next iterate
RECURSIVE SqrtIter(_, _, _)
SqrtIter(n, x, y) ==
    IF y >= x THEN x ELSE SqrtIter(n, y, (y + n \div y) \div 2)

\* floor of the square root of n (0 <= n < 2^31)
isqrt(n) == IF n = 0 THEN 0 ELSE SqrtIter(n, 46341, (46341 + n \div 46341) \div 2)

\* v(t) = pdf(t) / cdf(t) of the standard normal, tabulated at t = -4, -3.5,
\* ..., 4 and interpolated linearly in between (the truncated-Gaussian mean
\* correction of the win/loss factor, draw margin 0).
VTable == <<4226, 3751, 3283, 2823, 2373, 1939, 1525, 1141, 798,
            509, 288, 139, 55, 18, 4, 1, 0>>

v_win(t) ==
    LET tc  == IF t < -4000 THEN -4000 ELSE IF t > 4000 THEN 4000 ELSE t
        off == tc + 4000
        i   == off \div 500 + 1
        fr  == off % 500
    IN  IF i >= 17 THEN VTable[17]
        ELSE VTable[i] + ((VTable[i + 1] - VTable[i]) * fr) \div 500

Clamp(x, lo, hi) == IF x < lo THEN lo ELSE IF x > hi THEN hi ELSE x

\* w(t) = v(t) * (v(t) + t), the variance correction, from v = v(t)
w_win(t, v) == Clamp((v * (v + t)) \div 1000, 0, 999)

RECURSIVE SumSeq(_)
SumSeq(s) == IF s = <<>> THEN 0 ELSE Head(s) + SumSeq(Tail(s))

\* trueskill.Rating(mu, sigma)
create_rating(mu, sigma) == [mu |-> mu, sigma |-> sigma]

\* variance of a rating after the dynamics factor tau is added
PriorVar(r) == r.sigma * r.sigma + TAU * TAU

\* New rating of one member of a side: its mean moves by var/c * v in the
\* direction dir (+1 winner, -1 loser), its variance shrinks by the factor
\* 1 - var/c^2 * w.
rate_member(r, c, c2, v, w, dir) ==
    LET var    == PriorVar(r)
        shift  == ((var \div c) * v) \div 1000
        ratio  == var \div (c2 \div 1000)
        newvar == var - (var \div 1000) * ((ratio * w) \div 1000)
    IN  create_rating(r.mu + dir * shift, isqrt(newvar))

rate_sides(side1, side2, c, c2, v, w, d1) ==
    << [i \in 1..Len(side1) |-> rate_member(side1[i], c, c2, v, w, d1)],
       [i \in 1..Len(side2) |-> rate_member(side2[i], c, c2, v, w, -d1)] >>

rate_v(side1, side2, c, c2, t, v, d1) ==
    rate_sides(side1, side2, c, c2, v, w_win(t, v), d1)

rate_c(side1, side2, c, c2, delta, d1) ==
    rate_v(side1, side2, c, c2, (d1 * delta * 1000) \div c,
           v_win((d1 * delta * 1000) \div c), d1)

\* trueskill.rate([side1, side2], ranks) for two sides and no draw: side1 and
\* side2 are sequences of ratings, ranks is <<0, 1>> (side1 won) or <<1, 0>>.
\* The update is the closed form of the two-side factor graph:
\*   c^2 = sum of the members' variances + n * beta^2,  c = sqrt(c^2),
\*   t = (mean of the winning side - mean of the losing side) / c.
rate_c2(side1, side2, c2, delta, d1) ==
    rate_c(side1, side2, isqrt(c2), c2, delta, d1)

rate(side1, side2, ranks) ==
    rate_c2(side1, side2,
            SumSeq([i \in 1..Len(side1) |-> PriorVar(side1[i])])
              + SumSeq([i \in 1..Len(side2) |-> PriorVar(side2[i])])
              + (Len(side1) + Len(side2)) * BETA * BETA,
            SumSeq([i \in 1..Len(side1) |-> side1[i].mu])
              - SumSeq([i \in 1..Len(side2) |-> side2[i].mu]),
            IF ranks[1] < ranks[2] THEN 1 ELSE -1)

-----------------------------------------------------------------------------
(* Rows *)

\* Player(...) with the column defaults of models/player.py
NewPlayer ==
    [trueskill_mu |-> MU, trueskill_sigma |-> SIGMA, games_played |-> 0,
     wins |-> 0, losses |-> 0, is_active |-> TRUE]

\* Team(player1_id, player2_id, trueskill_mu, trueskill_sigma) with the
\* column defaults of models/team.py
NewTeam(p1, p2, mu, sigma) ==
    [player1_id |-> p1, player2_id |-> p2, trueskill_mu |-> mu,
     trueskill_sigma |-> sigma, games_played |-> 0, wins |-> 0,
     losses |-> 0, is_active |-> TRUE]

SetRating(row, r) ==
    [row EXCEPT !.trueskill_mu = r.mu, !.trueskill_sigma = r.sigma]

IncGames(row) == [row EXCEPT !.games_played = @ + 1]
IncWins(row) == [row EXCEPT !.wins = @ + 1]
IncLosses(row) == [row EXCEPT !.losses = @ + 1]

-----------------------------------------------------------------------------
(* Team.create_team_key, models/team.py:61-75 *)

create_team_key_unordered(player_id_1, player_id_2) ==
    IF player_id_1 = player_id_2
    THEN [err |-> TRUE, key |-> <<>>]
    ELSE [err |-> FALSE, key |-> <<player_id_1, player_id_2>>]

create_team_key(player_id_1, player_id_2) ==
    IF player_id_1 = player_id_2
    THEN [err |-> TRUE, key |-> <<>>]
    ELSE [err |-> FALSE,
          key |-> << IF player_id_1 <= player_id_2 THEN player_id_1
                                                   ELSE player_id_2,
                     IF player_id_1 >= player_id_2 THEN player_id_1
                                                   ELSE player_id_2 >>]

-----------------------------------------------------------------------------
(* TrueSkillService.  P is the map of loaded Player objects, T the map of  *)
(* loaded Team objects; an operator returns the maps after the in-place    *)
(* updates the method makes, in the order it makes them.                   *)

get_player_rating(player) ==
    create_rating(player.trueskill_mu, player.trueskill_sigma)

get_team_rating(team) ==
    create_rating(team.trueskill_mu, team.trueskill_sigma)

\* return new_ratings[0][0], new_ratings[1][0]
NewRatings(n) == [err |-> FALSE, r1 |-> n[1][1], r2 |-> n[2][1]]

\* mutant: an unknown winner is treated as a win of player2
calculate_new_ratings_else(P, p1, p2, winner_id) ==
    NewRatings(rate(<<get_player_rating(P[p1])>>,
                    <<get_player_rating(P[p2])>>,
                    IF winner_id = p1 THEN <<0, 1>> ELSE <<1, 0>>))

calculate_new_ratings(P, p1, p2, winner_id) ==
    IF winner_id # p1 /\ winner_id # p2
    THEN [err |-> TRUE, r1 |-> create_rating(0, 0), r2 |-> create_rating(0, 0)]
    ELSE NewRatings(rate(<<get_player_rating(P[p1])>>,
                         <<get_player_rating(P[p2])>>,
                         IF winner_id = p1 THEN <<0, 1>> ELSE <<1, 0>>))

\* mutant: player2's games_played is not incremented
apply_player_ratings_nogp(P, p1, p2, winner_id, c) ==
    IF c.err THEN [err |-> TRUE, P |-> P]
    ELSE
    LET Pa == [P EXCEPT ![p1] = IncGames(SetRating(@, c.r1))]
        Pb == [Pa EXCEPT ![p1] = IF winner_id = p1 THEN IncWins(@)
                                                   ELSE IncLosses(@)]
        Pc == [Pb EXCEPT ![p2] = SetRating(@, c.r2)]
        Pd == [Pc EXCEPT ![p2] = IF winner_id = p2 THEN IncWins(@)
                                                   ELSE IncLosses(@)]
    IN  [err |-> FALSE, P |-> Pd]

\* lines 91-109, with c the result of calculate_new_ratings (lines 87-89)
apply_player_ratings(P, p1, p2, winner_id, c) ==
    IF c.err THEN [err |-> TRUE, P |-> P]
    ELSE
    LET Pa == [P EXCEPT ![p1] = IncGames(SetRating(@, c.r1))]
        Pb == [Pa EXCEPT ![p1] = IF winner_id = p1 THEN IncWins(@)
                                                   ELSE IncLosses(@)]
        Pc == [Pb EXCEPT ![p2] = IncGames(SetRating(@, c.r2))]
        Pd == [Pc EXCEPT ![p2] = IF winner_id = p2 THEN IncWins(@)
                                                   ELSE IncLosses(@)]
    IN  [err |-> FALSE, P |-> Pd]

update_player_ratings(P, p1, p2, winner_id) ==
    apply_player_ratings(P, p1, p2, winner_id,
                         calculate_new_ratings(P, p1, p2, winner_id))

calculate_initial_team_rating(player1, player2) ==
    create_rating(player1.trueskill_mu + player2.trueskill_mu,
                  isqrt(player1.trueskill_sigma * player1.trueskill_sigma
                        + player2.trueskill_sigma * player2.trueskill_sigma))

calculate_new_team_ratings(T, t1, t2, winner_team_id) ==
    IF winner_team_id # t1 /\ winner_team_id # t2
    THEN [err |-> TRUE, r1 |-> create_rating(0, 0), r2 |-> create_rating(0, 0)]
    ELSE NewRatings(rate(<<get_team_rating(T[t1])>>,
                         <<get_team_rating(T[t2])>>,
                         IF winner_team_id = t1 THEN <<0, 1>> ELSE <<1, 0>>))

\* lines 284-302, with c the result of calculate_new_team_ratings
apply_team_ratings(T, t1, t2, winner_team_id, c) ==
    IF c.err THEN [err |-> TRUE, T |-> T]
    ELSE
    LET Ta == [T EXCEPT ![t1] = IncGames(SetRating(@, c.r1))]
        Tb == [Ta EXCEPT ![t1] = IF winner_team_id = t1 THEN IncWins(@)
                                                        ELSE IncLosses(@)]
        Tc == [Tb EXCEPT ![t2] = IncGames(SetRating(@, c.r2))]
        Td == [Tc EXCEPT ![t2] = IF winner_team_id = t2 THEN IncWins(@)
                                                        ELSE IncLosses(@)]
    IN  [err |-> FALSE, T |-> Td]

update_team_ratings(T, t1, t2, winner_team_id) ==
    apply_team_ratings(T, t1, t2, winner_team_id,
                       calculate_new_team_ratings(T, t1, t2, winner_team_id))

\* team1_new, team2_new of lines 262-263
NewMemberRatings(n) == [err |-> FALSE, team1_new |-> n[1], team2_new |-> n[2]]

\* mutant: the ranks of the two teams are exchanged
calculate_team_vs_individual_ratings_swapped(P, a1, a2, b1, b2, winning_team) ==
    IF winning_team # 1 /\ winning_team # 2
    THEN [err |-> TRUE, team1_new |-> <<>>, team2_new |-> <<>>]
    ELSE NewMemberRatings(
             rate(<<get_player_rating(P[a1]), get_player_rating(P[a2])>>,
                  <<get_player_rating(P[b1]), get_player_rating(P[b2])>>,
                  IF winning_team = 1 THEN <<1, 0>> ELSE <<0, 1>>))

calculate_team_vs_individual_ratings(P, a1, a2, b1, b2, winning_team) ==
    IF winning_team # 1 /\ winning_team # 2
    THEN [err |-> TRUE, team1_new |-> <<>>, team2_new |-> <<>>]
    ELSE NewMemberRatings(
             rate(<<get_player_rating(P[a1]), get_player_rating(P[a2])>>,
                  <<get_player_rating(P[b1]), get_player_rating(P[b2])>>,
                  IF winning_team = 1 THEN <<0, 1>> ELSE <<1, 0>>))

\* lines 327-357, with c the result of
\* calculate_team_vs_individual_ratings (lines 321-325)
apply_players_from_team_game(P, T, t1, t2, winner_team_id, c) ==
    LET a1 == T[t1].player1_id
        a2 == T[t1].player2_id
        b1 == T[t2].player1_id
        b2 == T[t2].player2_id
        P1 == [P  EXCEPT ![a1] = IncGames(SetRating(@, c.team1_new[1]))]
        P2 == [P1 EXCEPT ![a2] = IncGames(SetRating(@, c.team1_new[2]))]
        P3 == [P2 EXCEPT ![b1] = IncGames(SetRating(@, c.team2_new[1]))]
        P4 == [P3 EXCEPT ![b2] = IncGames(SetRating(@, c.team2_new[2]))]
        W1 == IF winner_team_id = t1 THEN a1 ELSE b1
        W2 == IF winner_team_id = t1 THEN a2 ELSE b2
        L1 == IF winner_team_id = t1 THEN b1 ELSE a1
        L2 == IF winner_team_id = t1 THEN b2 ELSE a2
        P5 == [P4 EXCEPT ![W1] = IncWins(@)]
        P6 == [P5 EXCEPT ![W2] = IncWins(@)]
        P7 == [P6 EXCEPT ![L1] = IncLosses(@)]
        P8 == [P7 EXCEPT ![L2] = IncLosses(@)]
    IN  P8

update_players_from_team_game(P, T, t1, t2, winner_team_id) ==
    apply_players_from_team_game(P, T, t1, t2, winner_team_id,
        calculate_team_vs_individual_ratings(
            P, T[t1].player1_id, T[t1].player2_id,
            T[t2].player1_id, T[t2].player2_id,
            IF winner_team_id = t1 THEN 1 ELSE 2))

-----------------------------------------------------------------------------
(* The database and the sessions.  A request runs in its own SQLAlchemy    *)
(* session (db/database.py get_db): its queries read committed rows, its   *)
(* objects are changed in memory, and db.commit() writes the changed       *)
(* columns of each changed object and the added rows in one transaction.   *)

Idle == [pc |-> "idle"]

OpenCount == Cardinality({s \in Slots : sess[s].pc = "open"})

\* Slot 2 serves a request only while slot 1 is busy (the slots are
\* interchangeable), and at most limit requests are served.
CanBegin(s) ==
    /\ sess[s].pc = "idle"
    /\ s = 2 => sess[1].pc = "open"
    /\ done_n + OpenCount < limit

Response(op, status, keys, ids, game) ==
    [op |-> op, status |-> status, keys |-> keys, ids |-> ids, game |-> game,
     err |-> ""]

\* the answer of the handler's "except Exception" branch (after db.rollback())
Failed(op, keys, err) ==
    [op |-> op, status |-> 500, keys |-> keys, ids |-> <<>>, game |-> 0,
     err |-> err]

\* the handler answers and nothing is committed
Answer(response) ==
    /\ resp' = response
    /\ done_n' = done_n + 1
    /\ UNCHANGED <<players, teams, team_games, games, rating_history, sess,
                   limit>>

\* the handler raises HTTPException, or returns without having written
ReplyNoSeq(op, status, keys, ids) == Answer(Response(op, status, keys, ids, 0))

Reply(op, status, keys, ids) ==
    /\ ReplyNoSeq(op, status, keys, ids)
    /\ UNCHANGED <<team_id_seq, team_game_id_seq, game_id_seq>>

\* the handler has flushed and changed objects; db.commit() is still to come
Open(s, session) ==
    /\ sess' = [sess EXCEPT ![s] = session]
    /\ UNCHANGED <<players, teams, team_games, games, rating_history,
                   resp, done_n, limit>>

Session(op, P0, P, T0, T, new_teams, add_team, team_game, add_game, keys, ids) ==
    [pc |-> "open", op |-> op, P0 |-> P0, P |-> P, T0 |-> T0, T |-> T,
     new_teams |-> new_teams, add_team |-> add_team, team_game |-> team_game,
     add_game |-> add_game, keys |-> keys, ids |-> ids]

EmptyMap == [x \in {} |-> 0]

\* db.query(Player).filter(Player.id == pid, Player.is_active).first()
ActivePlayer(pid) == pid \in DOMAIN players /\ players[pid].is_active

\* db.query(Team).filter(Team.id == tid, Team.is_active).first()
ActiveTeam(tid) == tid \in DOMAIN teams /\ teams[tid].is_active

\* db.query(Team).filter(Team.player1_id == key[1],
\*                       Team.player2_id == key[2], Team.is_active)
ActiveTeamsByKey(key) ==
    {t \in DOMAIN teams : /\ teams[t].player1_id = key[1]
                          /\ teams[t].player2_id = key[2]
                          /\ teams[t].is_active}

First(S) == CHOOSE x \in S : \A y \in S : x <= y

\* mutant: the unique constraint on (player1_id, player2_id) is missing
TeamConstraintsOK_nounique(row, committed) ==
    /\ row.player1_id # row.player2_id
    /\ row.player1_id < row.player2_id

\* Team.__table_args__, models/team.py:52-59: the two check constraints and
\* the unique constraint, as the database enforces them on INSERT
TeamConstraintsOK(row, committed) ==
    /\ row.player1_id # row.player2_id
    /\ row.player1_id < row.player2_id
    /\ \A t \in DOMAIN committed :
          ~(/\ committed[t].player1_id = row.player1_id
            /\ committed[t].player2_id = row.player2_id)

\* UPDATE of one object: the columns changed since it was loaded are set to
\* the object's values, the others keep what the row holds now
WriteBack(row, loaded, current) ==
    [c \in DOMAIN row |-> IF current[c] # loaded[c] THEN current[c] ELSE row[c]]

-----------------------------------------------------------------------------
(* api/v1/teams.py *)

create_or_get_team(s, player1_id, player2_id) ==
    /\ CanBegin(s)
    /\ UNCHANGED <<svcVars, keyVars, statVars>>
    /\ IF player1_id = player2_id
       THEN Reply("create_or_get_team", 400, <<>>, <<>>)
       ELSE IF ~ActivePlayer(player1_id) \/ ~ActivePlayer(player2_id)
       THEN Reply("create_or_get_team", 404, <<>>, <<>>)
       ELSE
       LET key      == create_team_key(player1_id, player2_id).key
           existing == ActiveTeamsByKey(key)
           r        == calculate_initial_team_rating(players[player1_id],
                                                     players[player2_id])
       IN  IF existing # {}
           THEN Reply("create_or_get_team", 201, <<key>>, <<First(existing)>>)
           ELSE /\ Open(s, Session("create_or_get_team", EmptyMap, EmptyMap,
                                   EmptyMap, EmptyMap, {},
                                   NewTeam(key[1], key[2], r.mu, r.sigma),
                                   NoRow, NoRow, <<key>>, <<>>))
                /\ UNCHANGED <<team_id_seq, team_game_id_seq, game_id_seq>>

delete_team(s, team_id) ==
    /\ CanBegin(s)
    /\ UNCHANGED <<svcVars, keyVars, statVars>>
    /\ IF team_id \notin DOMAIN teams
       THEN Reply("delete_team", 404, <<>>, <<>>)
       ELSE IF ~teams[team_id].is_active
       THEN Reply("delete_team", 400, <<>>, <<team_id>>)
       ELSE /\ Open(s, Session("delete_team", EmptyMap, EmptyMap,
                               [t \in {team_id} |-> teams[t]],
                               [t \in {team_id} |->
                                   [teams[t] EXCEPT !.is_active = FALSE]],
                               {}, NoRow, NoRow, NoRow, <<>>, <<team_id>>))
            /\ UNCHANGED <<team_id_seq, team_game_id_seq, game_id_seq>>

find_team_by_players(player1_id, player2_id) ==
    /\ done_n + OpenCount < limit
    /\ UNCHANGED <<svcVars, keyVars, statVars>>
    /\ LET k == create_team_key(player1_id, player2_id)
       IN  IF k.err
           THEN Reply("find_team_by_players", 400, <<>>, <<>>)
           ELSE IF ActiveTeamsByKey(k.key) = {}
           THEN Reply("find_team_by_players", 404, <<k.key>>, <<>>)
           ELSE Reply("find_team_by_players", 200, <<k.key>>,
                      <<First(ActiveTeamsByKey(k.key))>>)

-----------------------------------------------------------------------------
(* api/v1/players.py *)

delete_player(s, player_id) ==
    /\ CanBegin(s)
    /\ UNCHANGED <<svcVars, keyVars, statVars>>
    /\ IF player_id \notin DOMAIN players
       THEN Reply("delete_player", 404, <<>>, <<>>)
       ELSE /\ Open(s, Session("delete_player",
                               [p \in {player_id} |-> players[p]],
                               [p \in {player_id} |->
                                   [players[p] EXCEPT !.is_active = FALSE]],
                               EmptyMap, EmptyMap, {}, NoRow, NoRow, NoRow,
                               <<>>, <<player_id>>))
            /\ UNCHANGED <<team_id_seq, team_game_id_seq, game_id_seq>>

-----------------------------------------------------------------------------
(* api/v1/games.py *)

create_game(s, player1_id, player2_id, winner_id) ==
    /\ CanBegin(s)
    /\ UNCHANGED <<svcVars, keyVars, statVars>>
    /\ IF player1_id = player2_id
       THEN Reply("create_game", 400, <<>>, <<>>)
       ELSE IF ~ActivePlayer(player1_id) \/ ~ActivePlayer(player2_id)
       THEN Reply("create_game", 404, <<>>, <<>>)
       ELSE IF winner_id \notin {player1_id, player2_id}
       THEN Reply("create_game", 400, <<>>, <<>>)
       ELSE /\ Open(s, Session("create_game",
                               [p \in {player1_id, player2_id} |-> players[p]],
                               [p \in {player1_id, player2_id} |-> players[p]],
                               EmptyMap, EmptyMap, {}, NoRow, NoRow,
                               [player1_id |-> player1_id,
                                player2_id |-> player2_id,
                                winner_id |-> winner_id],
                               <<>>, <<player1_id, player2_id>>))
            /\ UNCHANGED <<team_id_seq, team_game_id_seq, game_id_seq>>

-----------------------------------------------------------------------------
(* api/v1/teamgames.py *)

TeamGameRow(id, team1_id, team2_id, winner_team_id) ==
    [id |-> id, team1_id |-> team1_id, team2_id |-> team2_id,
     winner_team_id |-> winner_team_id]

Members(T, t) == {T[t].player1_id, T[t].player2_id}

\* Lines 66-84 and 195-213: the game row is added and flushed, then the two
\* team objects and the member objects are updated in memory.
\* P0 are the loaded member objects, ut the result of update_team_ratings.
SettleLoaded(s, op, P0, T0, ut, new_teams, team1_id, team2_id, winner_team_id, keys) ==
    IF ut.err
    THEN ReplyNoSeq(op, 400, keys, <<team1_id, team2_id>>)
    ELSE Open(s, Session(op, P0,
                         update_players_from_team_game(P0, ut.T, team1_id,
                                                       team2_id, winner_team_id),
                         T0, ut.T, new_teams, NoRow,
                         TeamGameRow(team_game_id_seq, team1_id, team2_id,
                                     winner_team_id),
                         NoRow, keys, <<team1_id, team2_id>>))

SettleTeamGame(s, op, T0, T, new_teams, team1_id, team2_id, winner_team_id, keys) ==
    SettleLoaded(s, op,
                 [p \in Members(T, team1_id) \union Members(T, team2_id)
                     |-> players[p]],
                 T0,
                 update_team_ratings(T, team1_id, team2_id, winner_team_id),
                 new_teams, team1_id, team2_id, winner_team_id, keys)

\* mutant: the game row is added and committed before the winner is validated
create_team_game_commitfirst(s, team1_id, team2_id, winner_team_id) ==
    /\ CanBegin(s)
    /\ UNCHANGED <<svcVars, keyVars, statVars>>
    /\ IF team1_id = team2_id
       THEN Reply("create_team_game", 400, <<>>, <<>>)
       ELSE IF ~ActiveTeam(team1_id) \/ ~ActiveTeam(team2_id)
       THEN Reply("create_team_game", 404, <<>>, <<>>)
       ELSE IF winner_team_id \notin {team1_id, team2_id}
       THEN /\ resp' = Response("create_team_game", 400, <<>>, <<>>, 0)
            /\ done_n' = done_n + 1
            /\ team_games' =
                  [g \in DOMAIN team_games \union {team_game_id_seq} |->
                      IF g = team_game_id_seq
                      THEN TeamGameRow(g, team1_id, team2_id, winner_team_id)
                      ELSE team_games[g]]
            /\ team_game_id_seq' = team_game_id_seq + 1
            /\ UNCHANGED <<players, teams, games, rating_history, sess, limit,
                           team_id_seq, game_id_seq>>
       ELSE /\ SettleTeamGame(s, "create_team_game",
                              [t \in {team1_id, team2_id} |-> teams[t]],
                              [t \in {team1_id, team2_id} |-> teams[t]],
                              {}, team1_id, team2_id, winner_team_id, <<>>)
            /\ team_game_id_seq' = team_game_id_seq + 1
            /\ UNCHANGED <<team_id_seq, game_id_seq>>

create_team_game(s, team1_id, team2_id, winner_team_id) ==
    /\ CanBegin(s)
    /\ UNCHANGED <<svcVars, keyVars, statVars>>
    /\ IF team1_id = team2_id
       THEN Reply("create_team_game", 400, <<>>, <<>>)
       ELSE IF ~ActiveTeam(team1_id) \/ ~ActiveTeam(team2_id)
       THEN Reply("create_team_game", 404, <<>>, <<>>)
       ELSE IF winner_team_id \notin {team1_id, team2_id}
       THEN Reply("create_team_game", 400, <<>>, <<>>)
       ELSE /\ SettleTeamGame(s, "create_team_game",
                              [t \in {team1_id, team2_id} |-> teams[t]],
                              [t \in {team1_id, team2_id} |-> teams[t]],
                              {}, team1_id, team2_id, winner_team_id, <<>>)
            /\ team_game_id_seq' = team_game_id_seq + 1
            /\ UNCHANGED <<team_id_seq, game_id_seq>>

create_team_game_from_players(s, a1, a2, b1, b2, winner_team) ==
    /\ CanBegin(s)
    /\ UNCHANGED <<svcVars, keyVars, statVars>>
    /\ IF Cardinality({a1, a2, b1, b2}) # 4
       THEN Reply("create_team_game_from_players", 400, <<>>, <<>>)
       ELSE IF \E pid \in {a1, a2, b1, b2} : ~ActivePlayer(pid)
       THEN Reply("create_team_game_from_players", 404, <<>>, <<>>)
       ELSE
       LET op   == "create_team_game_from_players"
           k1   == create_team_key(a1, a2).key
           k2   == create_team_key(b1, b2).key
           e1   == ActiveTeamsByKey(k1)
           e2   == ActiveTeamsByKey(k2)
           r1   == calculate_initial_team_rating(players[a1], players[a2])
           r2   == calculate_initial_team_rating(players[b1], players[b2])
           row1 == NewTeam(k1[1], k1[2], r1.mu, r1.sigma)
           row2 == NewTeam(k2[1], k2[2], r2.mu, r2.sigma)
           seq2 == IF e1 = {} THEN team_id_seq + 1 ELSE team_id_seq
           seq3 == IF e2 = {} THEN seq2 + 1 ELSE seq2
           t1   == IF e1 = {} THEN team_id_seq ELSE First(e1)
           t2   == IF e2 = {} THEN seq2 ELSE First(e2)
           new  == (IF e1 = {} THEN {t1} ELSE {}) \union
                   (IF e2 = {} THEN {t2} ELSE {})
           T    == [t \in {t1, t2} |->
                       IF t = t1 THEN (IF e1 = {} THEN row1 ELSE teams[t1])
                                 ELSE (IF e2 = {} THEN row2 ELSE teams[t2])]
           T0   == [t \in {t1, t2} \ new |-> teams[t]]
       IN  IF e1 = {} /\ ~TeamConstraintsOK(row1, teams)
           THEN \* IntegrityError at the flush of team1
                /\ Answer(Failed(op, <<k1, k2>>, "IntegrityError"))
                /\ UNCHANGED <<team_id_seq, team_game_id_seq, game_id_seq>>
           ELSE IF e2 = {} /\ ~TeamConstraintsOK(row2, teams)
           THEN \* IntegrityError at the flush of team2
                /\ Answer(Failed(op, <<k1, k2>>, "IntegrityError"))
                /\ team_id_seq' = seq2
                /\ UNCHANGED <<team_game_id_seq, game_id_seq>>
           ELSE /\ SettleTeamGame(s, op, T0, T, new, t1, t2,
                                  IF winner_team = 1 THEN t1 ELSE t2,
                                  <<k1, k2>>)
                /\ team_id_seq' = seq3
                /\ team_game_id_seq' = team_game_id_seq + 1
                /\ UNCHANGED game_id_seq

-----------------------------------------------------------------------------
(* db.commit() and db.rollback() *)

\* mutant: the member objects are not written
CommitPlayers_none(S, committed) == committed

CommitPlayers(S, committed) ==
    [p \in DOMAIN committed |->
        IF p \in DOMAIN S.P0 THEN WriteBack(committed[p], S.P0[p], S.P[p])
                             ELSE committed[p]]

HasAdd(S) == S.add_team # NoRow

CommitTeams(S, committed, add_id) ==
    [t \in DOMAIN committed \union S.new_teams
           \union (IF HasAdd(S) THEN {add_id} ELSE {}) |->
        IF t \in S.new_teams THEN S.T[t]
        ELSE IF HasAdd(S) /\ t = add_id THEN S.add_team
        ELSE IF t \in DOMAIN S.T0 THEN WriteBack(committed[t], S.T0[t], S.T[t])
        ELSE committed[t]]

CommitTeamGames(S, committed) ==
    IF S.team_game = NoRow THEN committed
    ELSE [g \in DOMAIN committed \union {S.team_game.id} |->
             IF g = S.team_game.id THEN S.team_game ELSE committed[g]]

\* Game(player1_id, player2_id, winner_id) as stored: created_at is the
\* server default func.now() of models/game.py
GameRow(player1_id, player2_id, winner_id, created_at) ==
    [player1_id |-> player1_id, player2_id |-> player2_id,
     winner_id |-> winner_id, created_at |-> created_at]

CommitGames(S, committed, add_id) ==
    IF S.add_game = NoRow THEN committed
    ELSE [g \in DOMAIN committed \union {add_id} |->
             IF g = add_id
             THEN GameRow(S.add_game.player1_id, S.add_game.player2_id,
                          S.add_game.winner_id, now)
             ELSE committed[g]]

InsertedTeams(S) ==
    {S.T[t] : t \in S.new_teams} \union (IF HasAdd(S) THEN {S.add_team} ELSE {})

SuccessStatus(op) == IF op \in {"delete_team", "delete_player"} THEN 204 ELSE 201

\* db.commit(): every pending INSERT and UPDATE is applied and becomes
\* visible at once; an IntegrityError rolls the transaction back and the
\* handler answers 500.
Commit(s) ==
    /\ sess[s].pc = "open"
    /\ UNCHANGED <<svcVars, keyVars, statVars, rating_history, team_game_id_seq,
                   limit>>
    /\ sess' = [sess EXCEPT ![s] = Idle]
    /\ done_n' = done_n + 1
    /\ LET S == sess[s]
       IN  IF \E row \in InsertedTeams(S) : ~TeamConstraintsOK(row, teams)
           THEN /\ resp' = Failed(S.op, S.keys, "IntegrityError")
                /\ UNCHANGED <<players, teams, team_games, games,
                               team_id_seq, game_id_seq>>
           ELSE /\ players' = CommitPlayers(S, players)
                /\ teams' = CommitTeams(S, teams, team_id_seq)
                /\ team_games' = CommitTeamGames(S, team_games)
                /\ games' = CommitGames(S, games, game_id_seq)
                /\ team_id_seq' = IF HasAdd(S) THEN team_id_seq + 1
                                               ELSE team_id_seq
                /\ game_id_seq' = IF S.add_game # NoRow THEN game_id_seq + 1
                                                        ELSE game_id_seq
                /\ resp' = Response(S.op, SuccessStatus(S.op), S.keys,
                                    IF HasAdd(S) THEN <<team_id_seq>>
                                                 ELSE S.ids,
                                    IF S.team_game # NoRow THEN S.team_game.id
                                    ELSE IF S.add_game # NoRow THEN game_id_seq
                                    ELSE 0)

\* an exception between the flush and the commit: db.rollback(), 500
Fail(s) ==
    /\ sess[s].pc = "open"
    /\ UNCHANGED <<svcVars, keyVars, statVars, players, teams, team_games, games,
                   rating_history, team_id_seq, team_game_id_seq, game_id_seq,
                   limit>>
    /\ sess' = [sess EXCEPT ![s] = Idle]
    /\ done_n' = done_n + 1
    /\ resp' = Failed(sess[s].op, sess[s].keys, "Exception")

-----------------------------------------------------------------------------
(* Initial states *)

NoResponse == Response("none", 0, <<>>, <<>>, 0)
NoCall == [fn |-> "none", a |-> 0, b |-> 0, winner |-> 0]
NoKey == [done |-> FALSE, err |-> FALSE, key |-> <<>>]

\* the players exist with the default rating, every other table is empty
InitDb ==
    /\ players = [p \in Players |-> NewPlayer]
    /\ teams = EmptyMap
    /\ team_games = EmptyMap
    /\ games = EmptyMap
    /\ rating_history = {}
    /\ team_id_seq = 1
    /\ team_game_id_seq = 1
    /\ game_id_seq = 1
    /\ sess = [s \in Slots |-> Idle]
    /\ resp = NoResponse
    /\ done_n = 0

InitSvcVars == svc_call = NoCall /\ svc_res = "none" /\ svc_n = 0

InitKeyVars == key_in = <<1, 2>> /\ key_out = NoKey /\ key_rev = NoKey

NoQuery == [op |-> "none"]
NoSummary == [pc |-> "idle"]

\* no statistics query has been made; the clock reads Now0
InitStatVars ==
    /\ now = Now0
    /\ stat_call = NoQuery
    /\ stat_out = NoQuery
    /\ stat_n = 0
    /\ summary = NoSummary

Init == InitDb /\ limit = MaxRequests /\ InitSvcVars /\ InitKeyVars /\ InitStatVars

InitSeq ==
    InitDb /\ limit = MaxSeqRequests /\ InitSvcVars /\ InitKeyVars /\ InitStatVars

\* The four player ids of a quick team game: every choice of four distinct
\* players, and the choices made of players 1 and 2 only (never distinct).
QuickInputs ==
    {q \in Players \X Players \X Players \X Players :
        \/ Cardinality({q[1], q[2], q[3], q[4]}) = 4
        \/ {q[1], q[2], q[3], q[4]} \subseteq {1, 2}}

-----------------------------------------------------------------------------
(* Requests that form and settle team games, two at a time *)

Next ==
    \/ \E s \in Slots, a, b \in Players : create_or_get_team(s, a, b)
    \/ \E s \in Slots, t1, t2, w \in 1..team_id_seq :
          create_team_game(s, t1, t2, w)
    \/ \E s \in Slots, q \in QuickInputs, w \in {1, 2} :
          create_team_game_from_players(s, q[1], q[2], q[3], q[4], w)
    \/ \E s \in Slots : Commit(s)
    \/ \E s \in Slots : Fail(s)

Spec == Init /\ [][Next]_vars

-----------------------------------------------------------------------------
(* Requests that create, look up and delete teams, two at a time *)

NextTeams ==
    \/ \E s \in Slots, a, b \in Players : create_or_get_team(s, a, b)
    \/ \E s \in Slots, q \in QuickInputs, w \in {1, 2} :
          create_team_game_from_players(s, q[1], q[2], q[3], q[4], w)
    \/ \E s \in Slots, t \in 1..team_id_seq : delete_team(s, t)
    \/ \E a, b \in Players : find_team_by_players(a, b)
    \/ \E s \in Slots : Commit(s)
    \/ \E s \in Slots : Fail(s)

SpecTeams == Init /\ [][NextTeams]_vars

-----------------------------------------------------------------------------
(* Every request, one at a time *)

NextSeq ==
    \/ \E a, b \in Players : create_or_get_team(1, a, b)
    \/ \E t \in 1..team_id_seq : delete_team(1, t)
    \/ \E a, b \in Players : find_team_by_players(a, b)
    \/ \E p \in Players : delete_player(1, p)
    \/ \E a, b, w \in Players : create_game(1, a, b, w)
    \/ \E t1, t2, w \in 1..team_id_seq : create_team_game(1, t1, t2, w)
    \/ \E q \in QuickInputs, w \in {1, 2} :
          create_team_game_from_players(1, q[1], q[2], q[3], q[4], w)
    \/ Commit(1)
    \/ Fail(1)

SpecSeq == InitSeq /\ [][NextSeq]_vars

-----------------------------------------------------------------------------
(* Direct calls of the TrueSkillService update methods on loaded objects.  *)
(* The loaded teams are three teams that the team handlers can have        *)
(* created, two of them sharing a member.                                  *)

TeamOf(p1, p2) ==
    LET r == calculate_initial_team_rating(NewPlayer, NewPlayer)
    IN  NewTeam(p1, p2, r.mu, r.sigma)

SvcTeams == <<TeamOf(1, 2), TeamOf(3, 4), TeamOf(1, 3)>>

InitSvc ==
    /\ players = [p \in Players |-> NewPlayer]
    /\ teams = [t \in 1..Len(SvcTeams) |-> SvcTeams[t]]
    /\ team_games = EmptyMap
    /\ games = EmptyMap
    /\ rating_history = {}
    /\ team_id_seq = Len(SvcTeams) + 1
    /\ team_game_id_seq = 1
    /\ game_id_seq = 1
    /\ sess = [s \in Slots |-> Idle]
    /\ resp = NoResponse
    /\ done_n = 0
    /\ limit = 0
    /\ InitSvcVars
    /\ InitKeyVars
    /\ InitStatVars

SvcCalled(fn, a, b, winner, err) ==
    /\ svc_n < MaxSvcCalls
    /\ svc_n' = svc_n + 1
    /\ svc_call' = [fn |-> fn, a |-> a, b |-> b, winner |-> winner]
    /\ svc_res' = IF err THEN ValueError ELSE "ok"
    /\ UNCHANGED <<team_games, games, rating_history, team_id_seq,
                   team_game_id_seq, game_id_seq, sess, resp, done_n, limit,
                   keyVars, statVars>>

SvcUpdatePlayerRatings(p1, p2, winner_id) ==
    LET u == update_player_ratings(players, p1, p2, winner_id)
    IN  /\ SvcCalled("update_player_ratings", p1, p2, winner_id, u.err)
        /\ players' = u.P
        /\ UNCHANGED teams

SvcUpdateTeamRatings(t1, t2, winner_team_id) ==
    LET u == update_team_ratings(teams, t1, t2, winner_team_id)
    IN  /\ SvcCalled("update_team_ratings", t1, t2, winner_team_id, u.err)
        /\ teams' = u.T
        /\ UNCHANGED players

SvcUpdatePlayersFromTeamGame(t1, t2, winner_team_id) ==
    /\ SvcCalled("update_players_from_team_game", t1, t2, winner_team_id,
                 FALSE)
    /\ players' = update_players_from_team_game(players, teams, t1, t2,
                                                winner_team_id)
    /\ UNCHANGED teams

NextSvc ==
    \/ \E p1, p2 \in Players, w \in 0..NumPlayers :
          SvcUpdatePlayerRatings(p1, p2, w)
    \/ \E t1, t2 \in DOMAIN teams, w \in 0..Len(SvcTeams) :
          SvcUpdateTeamRatings(t1, t2, w)
    \/ \E t1, t2 \in DOMAIN teams, w \in 0..Len(SvcTeams) :
          SvcUpdatePlayersFromTeamGame(t1, t2, w)

SpecSvc == InitSvc /\ [][NextSvc]_vars

-----------------------------------------------------------------------------
(* TrueSkillService.get_match_quality *)

\* exp(-x) for x in thousandths, tabulated at x = 0, 0.5, ..., 8 and
\* interpolated linearly in between
ExpTable == <<1000, 607, 368, 223, 135, 82, 50, 30, 18, 11, 7, 4, 2, 2, 1, 1, 0>>

exp_neg(x) ==
    LET xc == IF x > 8000 THEN 8000 ELSE x
        i  == xc \div 500 + 1
        fr == xc % 500
    IN  IF i >= 17 THEN ExpTable[17]
        ELSE ExpTable[i] - ((ExpTable[i] - ExpTable[i + 1]) * fr) \div 500

\* d = 2 beta^2 + sigma1^2 + sigma2^2
QualityDenom(r1, r2) ==
    2 * BETA * BETA + r1.sigma * r1.sigma + r2.sigma * r2.sigma

\* (mu1 - mu2)^2 / (2 d), in thousandths
QualityGap(r1, r2) ==
    (((r1.mu - r2.mu) \div 10) * ((r1.mu - r2.mu) \div 10))
       \div (QualityDenom(r1, r2) \div 50000)

\* mutant: only the factor that depends on the difference of the means
quality_meansonly(r1, r2) == exp_neg(QualityGap(r1, r2))

\* trueskill.quality([(r1,), (r2,)]) for two single players and no draw:
\* sqrt(2 beta^2 / d) * exp(-(mu1 - mu2)^2 / (2 d)), in thousandths
quality(r1, r2) ==
    (isqrt(((2 * BETA * BETA) \div (QualityDenom(r1, r2) \div 1000)) * 1000)
        * exp_neg(QualityGap(r1, r2))) \div 1000

\* lines 118-126
get_match_quality(player1, player2) ==
    quality(get_player_rating(player1), get_player_rating(player2))

-----------------------------------------------------------------------------
(* One rating update on players that hold arbitrary skill beliefs *)

\* the means and deviations the beliefs are drawn from
RateMus == {k * 12500 : k \in 0..MuSteps}
RateSigmas == {500, 4000, SIGMA}

RatedPlayer(mu, sigma) ==
    [NewPlayer EXCEPT !.trueskill_mu = mu, !.trueskill_sigma = sigma]

InitRate ==
    /\ \E m1, m2 \in RateMus, s1, s2 \in RateSigmas,
          m3, m4 \in {12500, 37500}, s3, s4 \in {4000, SIGMA} :
          players = [p \in Players |->
                       CASE p = 1 -> RatedPlayer(m1, s1)
                         [] p = 2 -> RatedPlayer(m2, s2)
                         [] p = 3 -> RatedPlayer(m3, s3)
                         [] p = 4 -> RatedPlayer(m4, s4)
                         [] OTHER -> NewPlayer]
    /\ teams = [t \in 1..2 |-> <<TeamOf(1, 2), TeamOf(3, 4)>>[t]]
    /\ team_games = EmptyMap
    /\ games = EmptyMap
    /\ rating_history = {}
    /\ team_id_seq = 3
    /\ team_game_id_seq = 1
    /\ game_id_seq = 1
    /\ sess = [s \in Slots |-> Idle]
    /\ resp = NoResponse
    /\ done_n = 0
    /\ limit = 0
    /\ InitSvcVars
    /\ InitKeyVars
    /\ InitStatVars

NextRate ==
    \/ \E p1, p2 \in 1..2, w \in 1..2 :
          svc_n = 0 /\ p1 # p2 /\ SvcUpdatePlayerRatings(p1, p2, w)
    \/ \E t1, t2 \in 1..2, w \in 1..2 :
          svc_n = 0 /\ t1 # t2 /\ SvcUpdatePlayersFromTeamGame(t1, t2, w)

SpecRate == InitRate /\ [][NextRate]_vars

-----------------------------------------------------------------------------
(* Team.create_team_key applied to a pair of ids and to the swapped pair *)

InitKey ==
    /\ InitDb
    /\ limit = 0
    /\ InitSvcVars
    /\ InitStatVars
    /\ key_in \in (1..MaxKeyId) \X (1..MaxKeyId)
    /\ key_out = NoKey
    /\ key_rev = NoKey

KeyResult(k) == [done |-> TRUE, err |-> k.err, key |-> k.key]

KeyCall ==
    /\ ~key_out.done
    /\ key_out' = KeyResult(create_team_key(key_in[1], key_in[2]))
    /\ UNCHANGED <<dbVars, svcVars, statVars, key_in, key_rev>>

KeyCallSwapped ==
    /\ ~key_rev.done
    /\ key_rev' = KeyResult(create_team_key(key_in[2], key_in[1]))
    /\ UNCHANGED <<dbVars, svcVars, statVars, key_in, key_out>>

NextKey == KeyCall \/ KeyCallSwapped

SpecKey == InitKey /\ [][NextKey]_vars

-----------------------------------------------------------------------------
(* api/v1/statistics.py: helpers shared by the read-only endpoints *)

Min(a, b) == IF a <= b THEN a ELSE b
Max(a, b) == IF a >= b THEN a ELSE b

\* s[:n]
Take(s, n) == SubSeq(s, 1, Min(n, Len(s)))

\* s[a:b] with 0-based a and exclusive b, as a Python slice
Slice(s, a, b) == SubSeq(s, a + 1, Min(b, Len(s)))

Reverse(s) == [i \in 1..Len(s) |-> s[Len(s) + 1 - i]]

\* round(x, 2) of a value in thousandths: the nearest hundredth, a tie going
\* to the even hundredth
Round2(x) ==
    LET q == x \div 10
        r == x % 10
    IN  IF r < 5 THEN q * 10
        ELSE IF r > 5 THEN (q + 1) * 10
        ELSE IF q % 2 = 0 THEN q * 10 ELSE (q + 1) * 10

\* round(part / whole * 100, 2), 0.0 when whole is 0
Percentage(part, whole) ==
    IF whole = 0 THEN 0 ELSE Round2((part * 100000) \div whole)

\* mu - 3 * sigma
Conservative(mu, sigma) == mu - 3 * sigma

\* RatingHistory.conservative_rating_before / conservative_rating_after
conservative_rating_before(r) ==
    Conservative(r.trueskill_mu_before, r.trueskill_sigma_before)

conservative_rating_after(r) ==
    Conservative(r.trueskill_mu_after, r.trueskill_sigma_after)

\* The results an ORDER BY ... DESC can return for the rows Items (records
\* [k |-> sort key, x |-> row id]): every sequence of the row ids that is
\* descending in the key.  Rows with equal keys come in any order.
RECURSIVE OrderedDesc(_)
OrderedDesc(Items) ==
    IF Items = {} THEN {<<>>}
    ELSE UNION { {<<it.x>> \o rest : rest \in OrderedDesc(Items \ {it})} :
                 it \in {i \in Items : \A j \in Items : j.k <= i.k} }

\* db.query(Game).filter(or_(player1_id == pid, player2_id == pid))
GamesOf(player_id) ==
    {g \in DOMAIN games : \/ games[g].player1_id = player_id
                          \/ games[g].player2_id = player_id}

\* ... .order_by(desc(Game.created_at)).all()
GamesNewestFirst(ids) ==
    OrderedDesc({[k |-> games[g].created_at, x |-> g] : g \in ids})

\* db.query(RatingHistory).filter(player_id == pid)
\*   .order_by(RatingHistory.created_at).all(), as sequences of row ids
HistoryOldestFirst(player_id) ==
    OrderedDesc({[k |-> 0 - r.created_at, x |-> r.id] :
                 r \in {h \in rating_history : h.player_id = player_id}})

HistoryRow(id) == CHOOSE r \in rating_history : r.id = id

\* "W" if game.winner_id == player_id else "L"
ResultOf(g, player_id) == IF games[g].winner_id = player_id THEN "W" ELSE "L"

CountResult(gs, player_id, result) ==
    Cardinality({i \in 1..Len(gs) : ResultOf(gs[i], player_id) = result})

-----------------------------------------------------------------------------
(* get_player_statistics, statistics.py:190-441.  all_games is the result  *)
(* of the games query (game ids, newest first), hist the result of the     *)
(* rating history query (row ids, oldest first), t the request's "now".    *)

NoGamesPlayed == [text |-> "No games played"]

\* mutant: the scan does not stop at the first game of the other result
RECURSIVE StreakCount_nobreak(_, _, _)
StreakCount_nobreak(gs, player_id, streak_type) ==
    IF gs = <<>> THEN 0
    ELSE (IF ResultOf(Head(gs), player_id) = streak_type THEN 1 ELSE 0)
            + StreakCount_nobreak(Tail(gs), player_id, streak_type)

\* the loop of lines 241-247
RECURSIVE StreakCount(_, _, _)
StreakCount(gs, player_id, streak_type) ==
    IF gs = <<>> THEN 0
    ELSE IF ResultOf(Head(gs), player_id) = streak_type
         THEN 1 + StreakCount(Tail(gs), player_id, streak_type)
         ELSE 0

\* lines 235-250: f"{streak_count} game {streak_word} streak"
CurrentStreak(all_games, player_id) ==
    IF all_games = <<>> THEN NoGamesPlayed
    ELSE LET streak_type == ResultOf(all_games[1], player_id)
         IN  [count |-> StreakCount(all_games, player_id, streak_type),
              word  |-> IF streak_type = "W" THEN "win" ELSE "loss"]

NoStreaks ==
    [longest_win_streak |-> 0, longest_loss_streak |-> 0,
     current_win_streak |-> 0, current_loss_streak |-> 0]

\* mutant: a result does not reset the counter of the other result
LongestStep_noreset(acc, won) ==
    IF won
    THEN [acc EXCEPT !.current_win_streak = @ + 1,
                     !.longest_win_streak = Max(@, acc.current_win_streak + 1)]
    ELSE [acc EXCEPT !.current_loss_streak = @ + 1,
                     !.longest_loss_streak = Max(@, acc.current_loss_streak + 1)]

\* one iteration of the loop of lines 258-266
LongestStep(acc, won) ==
    IF won
    THEN [acc EXCEPT !.current_win_streak = @ + 1,
                     !.current_loss_streak = 0,
                     !.longest_win_streak = Max(@, acc.current_win_streak + 1)]
    ELSE [acc EXCEPT !.current_loss_streak = @ + 1,
                     !.current_win_streak = 0,
                     !.longest_loss_streak = Max(@, acc.current_loss_streak + 1)]

\* for game in reversed(all_games): gs is the chronological list
RECURSIVE LongestScan(_, _, _)
LongestScan(gs, player_id, acc) ==
    IF gs = <<>> THEN acc
    ELSE LongestScan(Tail(gs), player_id,
                     LongestStep(acc, games[Head(gs)].winner_id = player_id))

\* mutant: the chronological scan leaves out the most recent game
LongestStreaks_skipnewest(all_games, player_id) ==
    IF all_games = <<>> THEN NoStreaks
    ELSE LongestScan(Reverse(Tail(all_games)), player_id, NoStreaks)

\* lines 252-266
LongestStreaks(all_games, player_id) ==
    LongestScan(Reverse(all_games), player_id, NoStreaks)

\* datetime(1900, 1, 1): before every timestamp
Year1900 == 0 - 1000000

\* lines 270-274
Cutoff(t, days) == IF days > 0 THEN t - days * Day ELSE Year1900

\* lines 288-299, with ph the period_rating_history of lines 285-287
RatingChange(ph) ==
    IF Len(ph) >= 2
    THEN conservative_rating_after(HistoryRow(ph[Len(ph)]))
            - conservative_rating_before(HistoryRow(ph[1]))
    ELSE 0

AvgRating(ph) ==
    IF ph = <<>> THEN 0
    ELSE SumSeq([i \in 1..Len(ph) |->
                    conservative_rating_after(HistoryRow(ph[i]))]) \div Len(ph)

\* lines 301-306
TrendDirection(rating_change) ==
    IF rating_change > 2000 THEN "up"
    ELSE IF rating_change < -2000 THEN "down"
    ELSE "stable"

\* lines 275-317, with pg the period_games and ph the period_rating_history
PerformanceTrend(period_name, pg, ph, player_id) ==
    [period          |-> period_name,
     games_played    |-> Len(pg),
     wins            |-> CountResult(pg, player_id, "W"),
     losses          |-> Len(pg) - CountResult(pg, player_id, "W"),
     win_percentage  |-> Percentage(CountResult(pg, player_id, "W"), Len(pg)),
     avg_rating      |-> Round2(AvgRating(ph)),
     rating_change   |-> Round2(RatingChange(ph)),
     trend_direction |-> TrendDirection(RatingChange(ph))]

\* _calculate_trend(days, period_name), lines 269-317
calculate_trend(all_games, hist, player_id, t, days, period_name) ==
    PerformanceTrend(
        period_name,
        SelectSeq(all_games,
                  LAMBDA g : games[g].created_at >= Cutoff(t, days)),
        SelectSeq(hist,
                  LAMBDA h : HistoryRow(h).created_at >= Cutoff(t, days)),
        player_id)

\* mutant: the peak is taken from the latest entry
PeakEntry_last(hist) == hist[Len(hist)]

\* max(rating_history, key=lambda r: r.conservative_rating_after): the first
\* entry that no entry exceeds
PeakEntry(hist) ==
    hist[CHOOSE i \in 1..Len(hist) :
            /\ \A j \in 1..Len(hist) :
                  conservative_rating_after(HistoryRow(hist[j]))
                     <= conservative_rating_after(HistoryRow(hist[i]))
            /\ \A j \in 1..(i - 1) :
                  conservative_rating_after(HistoryRow(hist[j]))
                     < conservative_rating_after(HistoryRow(hist[i]))]

NoDate == [none |-> TRUE]
DateOf(created_at) == [at |-> created_at]

\* lines 227-233
PeakRating(player, hist) ==
    IF hist = <<>>
    THEN [peak_rating |-> Conservative(player.trueskill_mu,
                                       player.trueskill_sigma),
          peak_rating_date |-> NoDate]
    ELSE [peak_rating |-> conservative_rating_after(HistoryRow(PeakEntry(hist))),
          peak_rating_date |-> DateOf(HistoryRow(PeakEntry(hist)).created_at)]

\* all_games[:10], recent_form_games[:5], recent_form_games[5:10]
RecentK == 10
FormHalf == 5

\* mutant: the two halves are compared the other way round
FormTrend_swapped(form) ==
    IF Len(form) < RecentK THEN "stable"
    ELSE LET recent_wins ==
                 Cardinality({i \in 1..FormHalf : form[i] = "W"})
             previous_wins ==
                 Cardinality({i \in (FormHalf + 1)..RecentK : form[i] = "W"})
         IN  IF recent_wins < previous_wins THEN "improving"
             ELSE IF recent_wins > previous_wins THEN "declining"
             ELSE "stable"

\* lines 365-377, with form the results of recent_form_games
FormTrend(form) ==
    IF Len(form) < RecentK THEN "stable"
    ELSE LET recent_wins ==
                 Cardinality({i \in 1..FormHalf : form[i] = "W"})
             previous_wins ==
                 Cardinality({i \in (FormHalf + 1)..RecentK : form[i] = "W"})
         IN  IF recent_wins > previous_wins THEN "improving"
             ELSE IF recent_wins < previous_wins THEN "declining"
             ELSE "stable"

\* rating_entry of lines 335-348: the conservative rating change of the first
\* history row of game g, 0.0 when there is none
GameRatingChange(hist, g) ==
    LET rows == {i \in 1..Len(hist) : HistoryRow(hist[i]).game_id = g}
    IN  IF rows = {} THEN 0
        ELSE conservative_rating_after(HistoryRow(hist[First(rows)]))
                - conservative_rating_before(HistoryRow(hist[First(rows)]))

\* lines 326-399, with recent the list all_games[:10]
RecentForm(recent, hist, player_id) ==
    [games_analyzed |-> Len(recent),
     wins           |-> CountResult(recent, player_id, "W"),
     losses         |-> CountResult(recent, player_id, "L"),
     win_percentage |-> Percentage(CountResult(recent, player_id, "W"),
                                   Max(Len(recent), 1)),
     avg_rating_change |->
         SumSeq([i \in 1..Len(recent) |-> GameRatingChange(hist, recent[i])])
            \div Max(Len(recent), 1),
     current_form   |-> [i \in 1..Len(recent) |-> ResultOf(recent[i], player_id)],
     form_trend     |-> FormTrend([i \in 1..Len(recent) |->
                                      ResultOf(recent[i], player_id)])]

NotFound == [status |-> 404]

get_player_statistics(player_id, t, all_games, hist) ==
    IF player_id \notin DOMAIN players THEN NotFound
    ELSE
    [status              |-> 200,
     player_id           |-> player_id,
     total_games         |-> Len(all_games),
     wins                |-> CountResult(all_games, player_id, "W"),
     losses              |-> Len(all_games)
                               - CountResult(all_games, player_id, "W"),
     win_percentage      |-> Percentage(CountResult(all_games, player_id, "W"),
                                        Len(all_games)),
     conservative_rating |-> Round2(Conservative(players[player_id].trueskill_mu,
                                                 players[player_id].trueskill_sigma)),
     peak_rating         |->
         Round2(PeakRating(players[player_id], hist).peak_rating),
     peak_rating_date    |->
         PeakRating(players[player_id], hist).peak_rating_date,
     current_streak      |-> CurrentStreak(all_games, player_id),
     longest_win_streak  |->
         LongestStreaks(all_games, player_id).longest_win_streak,
     longest_loss_streak |->
         LongestStreaks(all_games, player_id).longest_loss_streak,
     performance_trends  |->
         << calculate_trend(all_games, hist, player_id, t, 7, "7d"),
            calculate_trend(all_games, hist, player_id, t, 30, "30d"),
            calculate_trend(all_games, hist, player_id, t, 90, "90d"),
            calculate_trend(all_games, hist, player_id, t, 0, "all") >>,
     recent_form         |-> RecentForm(Take(all_games, RecentK), hist, player_id),
     first_game_date     |-> IF all_games = <<>> THEN NoDate
                             ELSE DateOf(games[all_games[Len(all_games)]].created_at),
     last_game_date      |-> IF all_games = <<>> THEN NoDate
                             ELSE DateOf(games[all_games[1]].created_at),
     games_this_week     |->
         Len(SelectSeq(all_games,
                       LAMBDA g : games[g].created_at >= t - 7 * Day)),
     games_this_month    |->
         Len(SelectSeq(all_games,
                       LAMBDA g : games[g].created_at >= t - 30 * Day))]

-----------------------------------------------------------------------------
(* api/v1/statistics.py: get_head_to_head_statistics                       *)

BadRequest == [status |-> 400]

\* mutant: only the games with player1_id in the first seat are selected
H2HGames_oneseat(player1_id, player2_id) ==
    {g \in DOMAIN games :
        games[g].player1_id = player1_id /\ games[g].player2_id = player2_id}

\* lines 478-483
H2HGames(player1_id, player2_id) ==
    {g \in DOMAIN games :
        \/ games[g].player1_id = player1_id /\ games[g].player2_id = player2_id
        \/ games[g].player1_id = player2_id /\ games[g].player2_id = player1_id}

\* mutant: the scan does not stop at the first game the other player won
H2HStreakCount_nobreak(gs, streak_winner_id) ==
    Cardinality({i \in 1..Len(gs) : games[gs[i]].winner_id = streak_winner_id})

RECURSIVE H2HStreakCount(_, _)
H2HStreakCount(gs, streak_winner_id) ==
    IF gs = <<>> \/ games[Head(gs)].winner_id # streak_winner_id THEN 0
    ELSE 1 + H2HStreakCount(Tail(gs), streak_winner_id)

\* lines 499-514; None when there is no game
H2HStreak(gs, player1_id, player2_id) ==
    IF gs = <<>> THEN NoDate
    ELSE [player |-> IF games[gs[1]].winner_id = player1_id
                     THEN player1_id ELSE player2_id,
          count  |-> H2HStreakCount(gs, games[gs[1]].winner_id)]

\* lines 444-567, with gs the list head_to_head_games
get_head_to_head_statistics(player1_id, player2_id, gs) ==
    IF player1_id \notin DOMAIN players \/ player2_id \notin DOMAIN players
    THEN NotFound
    ELSE IF player1_id = player2_id THEN BadRequest
    ELSE
    [status       |-> 200,
     player1_id   |-> player1_id,
     player2_id   |-> player2_id,
     total_games  |-> Len(gs),
     player1_wins |-> CountResult(gs, player1_id, "W"),
     player2_wins |-> Len(gs) - CountResult(gs, player1_id, "W"),
     player1_win_percentage |->
         Percentage(CountResult(gs, player1_id, "W"), Len(gs)),
     player2_win_percentage |->
         Percentage(Len(gs) - CountResult(gs, player1_id, "W"), Len(gs)),
     last_game_date |-> IF gs = <<>> THEN NoDate
                        ELSE DateOf(games[gs[1]].created_at),
     current_streak |-> H2HStreak(gs, player1_id, player2_id),
     recent_games   |-> [i \in 1..Min(RecentK, Len(gs)) |->
                           [game_id |-> gs[i],
                            result  |-> ResultOf(gs[i], player1_id)]]]

-----------------------------------------------------------------------------
(* api/v1/statistics.py: get_enhanced_leaderboard                          *)

SortColumns == {"rating", "wins", "games", "win_rate", "other"}

\* The ORDER BY expression of lines 592-607.  Player.wins /
\* greatest(Player.games_played, 1) divides two integer columns: the quotient
\* is truncated or exact depending on how the installed SQLAlchemy renders
\* the division (truediv), and is kept here in thousandths when exact.
SortKey(player, sort_by, truediv) ==
    CASE sort_by = "wins"     -> player.wins
      [] sort_by = "games"    -> player.games_played
      [] sort_by = "win_rate" ->
            IF truediv
            THEN (player.wins * 1000) \div Max(player.games_played, 1)
            ELSE player.wins \div Max(player.games_played, 1)
      [] OTHER -> Conservative(player.trueskill_mu, player.trueskill_sigma)

\* lines 586-589
Eligible(min_games) ==
    {p \in DOMAIN players :
        /\ players[p].is_active
        /\ min_games > 0 => players[p].games_played >= min_games}

\* the orders in which the sorted query may return its rows
LeaderboardOrders(min_games, sort_by, truediv) ==
    OrderedDesc({[k |-> SortKey(players[p], sort_by, truediv), x |-> p] :
                 p \in Eligible(min_games)})

\* one most-recent-first list of games for every player
PlayerGameLists ==
    {f \in [DOMAIN players ->
              UNION {GamesNewestFirst(GamesOf(p)) : p \in DOMAIN players}] :
        \A p \in DOMAIN players : f[p] \in GamesNewestFirst(GamesOf(p))}

\* mutant: ranks are counted from the top of the returned page
LeaderboardRank_page(offset, i) == i

\* enumerate(players, start=offset + 1), for the i-th row of the page
LeaderboardRank(offset, i) == offset + i

\* lines 653-670
LeaderboardEntry(rank, player_id, gs, t) ==
    [rank                |-> rank,
     player_id           |-> player_id,
     games_played        |-> players[player_id].games_played,
     wins                |-> players[player_id].wins,
     losses              |-> players[player_id].losses,
     win_percentage      |-> Percentage(players[player_id].wins,
                                        players[player_id].games_played),
     conservative_rating |->
         Round2(Conservative(players[player_id].trueskill_mu,
                             players[player_id].trueskill_sigma)),
     recent_form         |-> [i \in 1..Min(FormHalf, Len(gs)) |->
                                ResultOf(gs[i], player_id)],
     last_game_date      |-> IF gs = <<>> THEN NoDate
                             ELSE DateOf(games[gs[1]].created_at),
     games_this_week     |->
         Len(SelectSeq(gs, LAMBDA g : games[g].created_at >= t - 7 * Day))]

\* lines 570-691, with order the rows of the sorted query before
\* offset/limit and lists the games the per-player queries return
get_enhanced_leaderboard(page, page_size, order, lists, t) ==
    [status         |-> 200,
     leaderboard    |->
         [i \in 1..Max(0, Min(page_size, Len(order) - (page - 1) * page_size)) |->
             LeaderboardEntry(LeaderboardRank((page - 1) * page_size, i),
                              order[(page - 1) * page_size + i],
                              lists[order[(page - 1) * page_size + i]], t)],
     total_players  |-> Cardinality(DOMAIN players),
     active_players |-> Cardinality({p \in DOMAIN players : players[p].is_active}),
     total_games    |-> Cardinality(DOMAIN games)]

-----------------------------------------------------------------------------
(* api/v1/statistics.py: get_statistics_summary                            *)

\* now.replace(hour=0, minute=0, second=0, microsecond=0)
TodayStart(t) == t - (t % Day)

\* db.query(Game).filter(Game.created_at >= start).count()
GamesSince(start) ==
    Cardinality({g \in DOMAIN games : games[g].created_at >= start})

\* .order_by(desc(key)).first(): a row no row exceeds, none without rows
FirstChoices(Items, none) ==
    IF Items = {} THEN {none}
    ELSE {i.x : i \in {j \in Items : \A o \in Items : o.k <= j.k}}

\* lines 48-53, 55-60 and 62-67
TopRatedChoices ==
    FirstChoices({[k |-> Conservative(players[p].trueskill_mu,
                                      players[p].trueskill_sigma), x |-> p] :
                  p \in {q \in DOMAIN players :
                           players[q].is_active /\ players[q].games_played >= 5}},
                 0)

MostActiveChoices ==
    FirstChoices({[k |-> players[p].games_played, x |-> p] :
                  p \in {q \in DOMAIN players : players[q].is_active}}, 0)

BestWinRateChoices ==
    {c \in UNION {FirstChoices(
                     {[k |-> SortKey(players[p], "win_rate", truediv), x |-> p] :
                      p \in {q \in DOMAIN players :
                               /\ players[q].is_active
                               /\ players[q].games_played >= 10}}, 0) :
                  truediv \in BOOLEAN} : TRUE}

\* lines 79-108: the pair of players with the most games, and the count
Matchup(g) ==
    <<Min(games[g].player1_id, games[g].player2_id),
      Max(games[g].player1_id, games[g].player2_id)>>

MatchupChoices ==
    FirstChoices({[k |-> Cardinality({h \in DOMAIN games : Matchup(h) = m}),
                   x |-> [p1 |-> m[1], p2 |-> m[2],
                          count |-> Cardinality({h \in DOMAIN games :
                                                    Matchup(h) = m})]] :
                  m \in {Matchup(g) : g \in DOMAIN games}}, NoDate)

\* _player_to_leaderboard_entry, lines 110-169; player is 0 for None
player_to_leaderboard_entry(player, gs, t) ==
    IF player = 0 THEN NoDate
    ELSE [rank                |-> 1,
          player_id           |-> player,
          games_played        |-> players[player].games_played,
          wins                |-> players[player].wins,
          losses              |-> players[player].losses,
          win_percentage      |->
              IF players[player].games_played = 0 THEN 0
              ELSE (players[player].wins * 100000)
                      \div players[player].games_played,
          conservative_rating |-> Conservative(players[player].trueskill_mu,
                                               players[player].trueskill_sigma),
          recent_form         |-> [i \in 1..Min(FormHalf, Len(gs[player])) |->
                                     ResultOf(gs[player][i], player)],
          last_game_date      |->
              IF gs[player] = <<>> THEN NoDate
              ELSE DateOf(games[gs[player][1]].created_at),
          games_this_week     |->
              Len(SelectSeq(gs[player],
                            LAMBDA g : games[g].created_at >= t - 7 * Day))]

\* func.avg(...) over the active players, 0.0 when there is none
SummaryAvgRating ==
    LET act == {p \in DOMAIN players : players[p].is_active}
        RECURSIVE Sum(_)
        Sum(S) == IF S = {} THEN 0
                  ELSE LET p == CHOOSE q \in S : TRUE
                       IN  Conservative(players[p].trueskill_mu,
                                        players[p].trueskill_sigma)
                              + Sum(S \ {p})
    IN  IF act = {} THEN 0 ELSE Sum(act) \div Cardinality(act)

\* The handler issues its queries one statement at a time; each statement
\* sees what is committed when it runs.  Lines 33-41: now and the basic
\* counts.
SummaryBegin ==
    /\ summary.pc = "idle"
    /\ stat_n < limit
    /\ summary' = [pc |-> "today", now |-> now,
                   total_players  |-> Cardinality(DOMAIN players),
                   active_players |->
                       Cardinality({p \in DOMAIN players : players[p].is_active}),
                   total_games    |-> Cardinality(DOMAIN games),
                   games_today |-> 0, games_this_week |-> 0,
                   games_this_month |-> 0]
    /\ UNCHANGED <<dbVars, svcVars, keyVars, now, stat_call, stat_out, stat_n>>

\* line 43
SummaryToday ==
    /\ summary.pc = "today"
    /\ summary' = [summary EXCEPT !.pc = "week",
                      !.games_today = GamesSince(TodayStart(summary.now))]
    /\ UNCHANGED <<dbVars, svcVars, keyVars, now, stat_call, stat_out, stat_n>>

\* line 44
SummaryWeek ==
    /\ summary.pc = "week"
    /\ summary' = [summary EXCEPT !.pc = "month",
                      !.games_this_week = GamesSince(summary.now - 7 * Day)]
    /\ UNCHANGED <<dbVars, svcVars, keyVars, now, stat_call, stat_out, stat_n>>

\* line 45
SummaryMonth ==
    /\ summary.pc = "month"
    /\ summary' = [summary EXCEPT !.pc = "rest",
                      !.games_this_month = GamesSince(summary.now - 30 * Day)]
    /\ UNCHANGED <<dbVars, svcVars, keyVars, now, stat_call, stat_out, stat_n>>

\* lines 47-181: the top performers, the averages, the most common matchup
\* and the response
StatisticsSummary(S, top_rated, most_active, best_win_rate, matchup, lists) ==
    [status               |-> 200,
     total_players        |-> S.total_players,
     active_players       |-> S.active_players,
     total_games          |-> S.total_games,
     games_today          |-> S.games_today,
     games_this_week      |-> S.games_this_week,
     games_this_month     |-> S.games_this_month,
     highest_rated_player |-> player_to_leaderboard_entry(top_rated, lists, S.now),
     most_active_player   |-> player_to_leaderboard_entry(most_active, lists, S.now),
     best_win_rate_player |-> player_to_leaderboard_entry(best_win_rate, lists, S.now),
     avg_games_per_player |->
         Round2((S.total_games * 1000) \div Max(S.total_players, 1)),
     avg_rating           |-> Round2(SummaryAvgRating),
     most_common_matchup  |-> matchup]

SummaryFinish ==
    /\ summary.pc = "rest"
    /\ \E top_rated \in TopRatedChoices, most_active \in MostActiveChoices,
          best_win_rate \in BestWinRateChoices, matchup \in MatchupChoices,
          lists \in PlayerGameLists :
          /\ stat_call' = [op |-> "get_statistics_summary"]
          /\ stat_out' = StatisticsSummary(summary, top_rated, most_active,
                                           best_win_rate, matchup, lists)
    /\ stat_n' = stat_n + 1
    /\ summary' = NoSummary
    /\ UNCHANGED <<dbVars, svcVars, keyVars, now>>

-----------------------------------------------------------------------------
(* Statistics queries.  A query is answered from one reading of the        *)
(* committed tables at the time of the request.                            *)

StatAnswered(call, out) ==
    /\ stat_n < limit
    /\ stat_call' = call
    /\ stat_out' = out
    /\ stat_n' = stat_n + 1
    /\ UNCHANGED <<dbVars, svcVars, keyVars, now, summary>>

GetPlayerStatistics(player_id) ==
    \E all_games \in GamesNewestFirst(GamesOf(player_id)),
       hist \in HistoryOldestFirst(player_id) :
       StatAnswered([op |-> "get_player_statistics", player_id |-> player_id],
                    get_player_statistics(player_id, now, all_games, hist))

\* Players 1 and 2 have played n games against each other, one every three
\* days up to now, taking the two seats in turn; winners[g] won game g.
GameHistory(n, winners) ==
    [g \in 1..n |->
        GameRow(IF g % 2 = 1 THEN 1 ELSE 2, IF g % 2 = 1 THEN 2 ELSE 1,
                winners[g], Now0 - (n - g) * 3 * Day)]

InitStats ==
    /\ \E n \in 0..MaxHistory :
          \E winners \in [1..n -> {1, 2}] :
             /\ games = GameHistory(n, winners)
             /\ game_id_seq = n + 1
    /\ players = [p \in Players |-> NewPlayer]
    /\ teams = EmptyMap
    /\ team_games = EmptyMap
    /\ rating_history = {}
    /\ team_id_seq = 1
    /\ team_game_id_seq = 1
    /\ sess = [s \in Slots |-> Idle]
    /\ resp = NoResponse
    /\ done_n = 0
    /\ limit = 1
    /\ InitSvcVars
    /\ InitKeyVars
    /\ InitStatVars

NextStats == \E player_id \in 0..2 : GetPlayerStatistics(player_id)

SpecStats == InitStats /\ [][NextStats]_vars

\* Ratings a player has held: the initial one, the ones after winning or
\* losing a first game against a new player, and one after further wins.
RatingSamples ==
    << [mu |-> MU, sigma |-> SIGMA],
       [mu |-> 29205, sigma |-> 7202],
       [mu |-> 20795, sigma |-> 7202],
       [mu |-> 31226, sigma |-> 6523] >>

\* ages of rating-history entries, in days before now
EntryAges == <<200, 60, 20, 3, 0>>

\* Player 1 has k rating-history entries, entry i written at age ages[i] for
\* game i against player 2, taking the rating from held[i] to held[i + 1].
HistoryRows(k, ages, held) ==
    {[id |-> i, player_id |-> 1, game_id |-> i,
      trueskill_mu_before    |-> RatingSamples[held[i]].mu,
      trueskill_sigma_before |-> RatingSamples[held[i]].sigma,
      trueskill_mu_after     |-> RatingSamples[held[i + 1]].mu,
      trueskill_sigma_after  |-> RatingSamples[held[i + 1]].sigma,
      created_at |-> Now0 - EntryAges[ages[i]] * Day] : i \in 1..k}

InitTrend ==
    /\ \E k \in 0..MaxEntries :
          \E ages \in [1..k -> DOMAIN EntryAges],
             held \in [1..(k + 1) -> DOMAIN RatingSamples] :
             /\ \A i \in 1..(k - 1) : ages[i] < ages[i + 1]
             /\ rating_history = HistoryRows(k, ages, held)
             /\ games = [g \in 1..k |->
                           GameRow(1, 2, IF held[g + 1] = 3 THEN 2 ELSE 1,
                                   Now0 - EntryAges[ages[g]] * Day)]
             /\ game_id_seq = k + 1
             /\ players = [p \in Players |->
                             IF p = 1
                             THEN [NewPlayer EXCEPT
                                     !.trueskill_mu = RatingSamples[held[k + 1]].mu,
                                     !.trueskill_sigma = RatingSamples[held[k + 1]].sigma]
                             ELSE NewPlayer]
    /\ teams = EmptyMap
    /\ team_games = EmptyMap
    /\ team_id_seq = 1
    /\ team_game_id_seq = 1
    /\ sess = [s \in Slots |-> Idle]
    /\ resp = NoResponse
    /\ done_n = 0
    /\ limit = 1
    /\ InitSvcVars
    /\ InitKeyVars
    /\ InitStatVars

SpecTrend == InitTrend /\ [][NextStats]_vars

GetHeadToHead(player1_id, player2_id) ==
    \E gs \in GamesNewestFirst(H2HGames(player1_id, player2_id)) :
       StatAnswered([op |-> "get_head_to_head_statistics",
                     player1_id |-> player1_id, player2_id |-> player2_id],
                    get_head_to_head_statistics(player1_id, player2_id, gs))

\* the games create_game accepts among players 1..3: two different players,
\* one of them the winner
GameKinds ==
    {k \in (1..3) \X (1..3) \X (1..3) : k[1] # k[2] /\ k[3] \in {k[1], k[2]}}

InitH2H ==
    /\ \E n \in 0..MaxH2HGames :
          \E kinds \in [1..n -> GameKinds] :
             /\ games = [g \in 1..n |->
                           GameRow(kinds[g][1], kinds[g][2], kinds[g][3],
                                   Now0 - (n - g) * Day)]
             /\ game_id_seq = n + 1
    /\ players = [p \in Players |-> NewPlayer]
    /\ teams = EmptyMap
    /\ team_games = EmptyMap
    /\ rating_history = {}
    /\ team_id_seq = 1
    /\ team_game_id_seq = 1
    /\ sess = [s \in Slots |-> Idle]
    /\ resp = NoResponse
    /\ done_n = 0
    /\ limit = 1
    /\ InitSvcVars
    /\ InitKeyVars
    /\ InitStatVars

NextH2H ==
    \E player1_id \in 0..2, player2_id \in 0..2 :
       GetHeadToHead(player1_id, player2_id)

SpecH2H == InitH2H /\ [][NextH2H]_vars

GetEnhancedLeaderboard(page, page_size, min_games, sort_by) ==
    \E truediv \in BOOLEAN :
       \E order \in LeaderboardOrders(min_games, sort_by, truediv),
          lists \in PlayerGameLists :
          StatAnswered([op |-> "get_enhanced_leaderboard", page |-> page,
                        page_size |-> page_size, min_games |-> min_games,
                        sort_by |-> sort_by],
                       get_enhanced_leaderboard(page, page_size, order, lists, now))

\* Rows of the players table: a new player, the winner and the loser of a
\* first game between new players, and deactivated players (delete_player
\* clears is_active and keeps the row).
PlayerProfiles ==
    LET played == update_player_ratings([p \in 1..2 |-> NewPlayer], 1, 2, 1).P
    IN  {NewPlayer, played[1], played[2],
         [NewPlayer EXCEPT !.is_active = FALSE],
         [played[1] EXCEPT !.is_active = FALSE]}

InitBoard ==
    /\ \E rows \in [1..3 -> PlayerProfiles] :
          players = [p \in Players |->
                       IF p <= 3 THEN rows[p]
                       ELSE [NewPlayer EXCEPT !.is_active = FALSE]]
    /\ games = EmptyMap
    /\ game_id_seq = 1
    /\ teams = EmptyMap
    /\ team_games = EmptyMap
    /\ rating_history = {}
    /\ team_id_seq = 1
    /\ team_game_id_seq = 1
    /\ sess = [s \in Slots |-> Idle]
    /\ resp = NoResponse
    /\ done_n = 0
    /\ limit = 1
    /\ InitSvcVars
    /\ InitKeyVars
    /\ InitStatVars

NextBoard ==
    \E page \in 1..MaxPage, page_size \in 1..MaxPageSize,
       min_games \in 0..2, sort_by \in SortColumns :
       GetEnhancedLeaderboard(page, page_size, min_games, sort_by)

SpecBoard == InitBoard /\ [][NextBoard]_vars

\* ages of the games recorded before the summary is requested, in hours
SummaryAges == <<40 * Day, 10 * Day, 2 * Day, 3>>

\* Some earlier games between players 1 and 2 exist; one summary request and
\* one request that records a game are served, in any interleaving.
InitSummary ==
    /\ \E old \in SUBSET DOMAIN SummaryAges :
          /\ games = [g \in 1..Cardinality(old) |->
                        GameRow(1, 2, 1,
                                Now0 - SummaryAges[
                                          CHOOSE a \in old :
                                             Cardinality({b \in old : b <= a}) = g])]
          /\ game_id_seq = Cardinality(old) + 1
    /\ players = [p \in Players |-> NewPlayer]
    /\ teams = EmptyMap
    /\ team_games = EmptyMap
    /\ rating_history = {}
    /\ team_id_seq = 1
    /\ team_game_id_seq = 1
    /\ sess = [s \in Slots |-> Idle]
    /\ resp = NoResponse
    /\ done_n = 0
    /\ limit = 1
    /\ InitSvcVars
    /\ InitKeyVars
    /\ InitStatVars

NextSummary ==
    \/ SummaryBegin
    \/ SummaryToday
    \/ SummaryWeek
    \/ SummaryMonth
    \/ SummaryFinish
    \/ \E a, b, w \in Players : create_game(1, a, b, w)
    \/ Commit(1)
    \/ Fail(1)

SpecSummary == InitSummary /\ [][NextSummary]_vars

\* A client makes a statistics query and then makes the same query again;
\* nothing is written in between.
Repeats(call) == stat_n > 0 => stat_call = call

InitRepeat ==
    /\ \E n \in 0..2 :
          \E winners \in [1..n -> {1, 2}] :
             /\ games = GameHistory(n, winners)
             /\ game_id_seq = n + 1
    /\ players = [p \in Players |-> NewPlayer]
    /\ teams = EmptyMap
    /\ team_games = EmptyMap
    /\ rating_history = {}
    /\ team_id_seq = 1
    /\ team_game_id_seq = 1
    /\ sess = [s \in Slots |-> Idle]
    /\ resp = NoResponse
    /\ done_n = 0
    /\ limit = 2
    /\ InitSvcVars
    /\ InitKeyVars
    /\ InitStatVars

NextRepeat ==
    \/ \E player_id \in 1..2 :
          /\ Repeats([op |-> "get_player_statistics", player_id |-> player_id])
          /\ GetPlayerStatistics(player_id)
    \/ \E player1_id \in 1..2, player2_id \in 1..2 :
          /\ Repeats([op |-> "get_head_to_head_statistics",
                      player1_id |-> player1_id, player2_id |-> player2_id])
          /\ GetHeadToHead(player1_id, player2_id)
    \/ \E page \in 1..MaxPage, page_size \in 1..MaxPageSize,
          min_games \in 0..1, sort_by \in SortColumns :
          /\ Repeats([op |-> "get_enhanced_leaderboard", page |-> page,
                      page_size |-> page_size, min_games |-> min_games,
                      sort_by |-> sort_by])
          /\ GetEnhancedLeaderboard(page, page_size, min_games, sort_by)
    \/ Repeats([op |-> "get_statistics_summary"]) /\ SummaryBegin
    \/ SummaryToday
    \/ SummaryWeek
    \/ SummaryMonth
    \/ SummaryFinish

SpecRepeat == InitRepeat /\ [][NextRepeat]_vars

\* A client reads the leaderboard page by page: page 1, then page 2 of the
\* same page size, filter and sort key; nothing is written in between.
NextPage(call) ==
    IF stat_n = 0 THEN call.page = 1
    ELSE call = [stat_call EXCEPT !.page = @ + 1]

InitPages ==
    /\ \E rows \in [1..3 -> PlayerProfiles] :
          players = [p \in Players |->
                       IF p <= 3 THEN rows[p]
                       ELSE [NewPlayer EXCEPT !.is_active = FALSE]]
    /\ games = EmptyMap
    /\ game_id_seq = 1
    /\ teams = EmptyMap
    /\ team_games = EmptyMap
    /\ rating_history = {}
    /\ team_id_seq = 1
    /\ team_game_id_seq = 1
    /\ sess = [s \in Slots |-> Idle]
    /\ resp = NoResponse
    /\ done_n = 0
    /\ limit = 2
    /\ InitSvcVars
    /\ InitKeyVars
    /\ InitStatVars

NextPages ==
    \E page \in 1..MaxPage, page_size \in 1..MaxPageSize,
       min_games \in 0..2, sort_by \in SortColumns :
       /\ NextPage([op |-> "get_enhanced_leaderboard", page |-> page,
                    page_size |-> page_size, min_games |-> min_games,
                    sort_by |-> sort_by])
       /\ GetEnhancedLeaderboard(page, page_size, min_games, sort_by)

SpecPages == InitPages /\ [][NextPages]_vars

\* The players table after the games of GameHistory(n, winners) have been
\* settled one after the other by create_game, from game g on.
RECURSIVE PlayedOut(_, _, _)
PlayedOut(P, winners, g) ==
    IF g > Len(winners) THEN P
    ELSE PlayedOut(update_player_ratings(P, IF g % 2 = 1 THEN 1 ELSE 2,
                                         IF g % 2 = 1 THEN 2 ELSE 1,
                                         winners[g]).P,
                   winners, g + 1)

\* Players 1 and 2 have played up to MaxPlayed games against each other, the
\* other players none; the leaderboard is read sorted by win rate.
InitWinRate ==
    /\ \E n \in 0..MaxPlayed :
          \E winners \in [1..n -> {1, 2}] :
             /\ games = GameHistory(n, winners)
             /\ game_id_seq = n + 1
             /\ players = PlayedOut([p \in Players |-> NewPlayer], winners, 1)
    /\ teams = EmptyMap
    /\ team_games = EmptyMap
    /\ rating_history = {}
    /\ team_id_seq = 1
    /\ team_game_id_seq = 1
    /\ sess = [s \in Slots |-> Idle]
    /\ resp = NoResponse
    /\ done_n = 0
    /\ limit = 1
    /\ InitSvcVars
    /\ InitKeyVars
    /\ InitStatVars

NextWinRate ==
    \E page \in 1..MaxPage, page_size \in 1..MaxPageSize, min_games \in 0..1 :
       GetEnhancedLeaderboard(page, page_size, min_games, "win_rate")

SpecWinRate == InitWinRate /\ [][NextWinRate]_vars

\* Three teams exist, two of them sharing a member, and some of them have
\* been deactivated by delete_team; team games are requested for every
\* choice of team ids, two requests at a time.
InitTeamGames ==
    /\ players = [p \in Players |-> NewPlayer]
    /\ \E deleted \in SUBSET (1..Len(SvcTeams)) :
          teams = [t \in 1..Len(SvcTeams) |->
                     [SvcTeams[t] EXCEPT !.is_active = t \notin deleted]]
    /\ team_games = EmptyMap
    /\ games = EmptyMap
    /\ rating_history = {}
    /\ team_id_seq = Len(SvcTeams) + 1
    /\ team_game_id_seq = 1
    /\ game_id_seq = 1
    /\ sess = [s \in Slots |-> Idle]
    /\ resp = NoResponse
    /\ done_n = 0
    /\ limit = MaxRequests
    /\ InitSvcVars
    /\ InitKeyVars
    /\ InitStatVars

NextTeamGames ==
    \/ \E s \in Slots, t1, t2, w \in 1..team_id_seq :
          create_team_game(s, t1, t2, w)
    \/ \E s \in Slots : Commit(s)
    \/ \E s \in Slots : Fail(s)

SpecTeamGames == InitTeamGames /\ [][NextTeamGames]_vars

GetMatchQuality(p1, p2) ==
    StatAnswered([op |-> "get_match_quality", player1_id |-> p1,
                  player2_id |-> p2],
                 [quality |-> get_match_quality(players[p1], players[p2])])

\* the match quality of two players that hold arbitrary skill beliefs
InitQuality ==
    /\ \E m1, m2 \in RateMus, s1, s2 \in RateSigmas :
          players = [p \in Players |->
                       CASE p = 1 -> RatedPlayer(m1, s1)
                         [] p = 2 -> RatedPlayer(m2, s2)
                         [] OTHER -> NewPlayer]
    /\ teams = EmptyMap
    /\ team_games = EmptyMap
    /\ games = EmptyMap
    /\ rating_history = {}
    /\ team_id_seq = 1
    /\ team_game_id_seq = 1
    /\ game_id_seq = 1
    /\ sess = [s \in Slots |-> Idle]
    /\ resp = NoResponse
    /\ done_n = 0
    /\ limit = 1
    /\ InitSvcVars
    /\ InitKeyVars
    /\ InitStatVars

NextQuality == \E p1, p2 \in 1..3 : GetMatchQuality(p1, p2)

SpecQuality == InitQuality /\ [][NextQuality]_vars

-----------------------------------------------------------------------------
(* Properties *)

TeamsOfGame(g) == {team_games[g].team1_id, team_games[g].team2_id}

PlayersOfGame(g) ==
    UNION {Members(teams, t) : t \in TeamsOfGame(g) \intersect DOMAIN teams}

RatingOf(row) == <<row.trueskill_mu, row.trueskill_sigma>>
CountersOf(row) == <<row.games_played, row.wins, row.losses>>

\* C1: no update is lost: the games_played of every team and of every player
\* equals the number of committed team games it took part in, however the
\* settles were interleaved.
C1_NoLostUpdate ==
    /\ \A t \in DOMAIN teams :
          teams[t].games_played =
             Cardinality({g \in DOMAIN team_games : t \in TeamsOfGame(g)})
    /\ \A p \in Players :
          players[p].games_played =
             Cardinality({g \in DOMAIN team_games : p \in PlayersOfGame(g)})

\* The step makes the team game of the open session S visible: its row, and
\* every column the settle changed on the two teams and on each member, take
\* the values the settle computed, games_played of each among them.
SettleVisible(S) ==
    /\ S.pc = "open"
    /\ S.team_game # NoRow
    /\ DOMAIN team_games' \ DOMAIN team_games = {S.team_game.id}
    /\ team_games'[S.team_game.id] = S.team_game
    /\ \A t \in {S.team_game.team1_id, S.team_game.team2_id} :
          /\ t \in DOMAIN teams'
          /\ S.T[t].games_played > 0
          /\ \A c \in DOMAIN S.T[t] :
                (t \in S.new_teams \/ S.T[t][c] # S.T0[t][c])
                   => teams'[t][c] = S.T[t][c]
          /\ \A p \in Members(S.T, t) :
                /\ S.P[p].games_played > S.P0[p].games_played
                /\ \A c \in DOMAIN S.P[p] :
                      S.P[p][c] # S.P0[p][c] => players'[p][c] = S.P[p][c]

C3_GamesPlayedIsWinsPlusLosses ==
    /\ \A p \in DOMAIN players :
          players[p].games_played = players[p].wins + players[p].losses
    /\ \A t \in DOMAIN teams :
          teams[t].games_played = teams[t].wins + teams[t].losses

\* the same player has been updated by two calls, once as winner and once as
\* loser
C3_Witness ==
    /\ svc_n = 2
    /\ \E p \in Players : players[p].wins >= 1 /\ players[p].losses >= 1

ExactlyOneOutcome(before, after) ==
    /\ after.games_played = before.games_played + 1
    /\ \/ after.wins = before.wins + 1 /\ after.losses = before.losses
       \/ after.losses = before.losses + 1 /\ after.wins = before.wins

Touched(before, after) ==
    RatingOf(before) # RatingOf(after) \/ CountersOf(before) # CountersOf(after)

\* C4: every settled outcome changes each player and team record it touches
\* by exactly games_played + 1 and exactly one of wins + 1 or losses + 1.
C4_ExactlyOneOutcome ==
    [][ /\ \A p \in Players :
              Touched(players[p], players'[p])
                 => ExactlyOneOutcome(players[p], players'[p])
        /\ \A t \in DOMAIN teams :
              Touched(teams[t], teams'[t])
                 => ExactlyOneOutcome(teams[t], teams'[t]) ]_vars

HistoryOf(kind, subject, g) ==
    {h \in rating_history :
        h.kind = kind /\ h.subject = subject /\ h.game = g}

\* C5: every committed team game has exactly one rating-history entry for
\* each of its two teams and each of its members.
C5_HistoryComplete ==
    \A g \in DOMAIN team_games :
       /\ \A t \in TeamsOfGame(g) : Cardinality(HistoryOf("team", t, g)) = 1
       /\ \A p \in PlayersOfGame(g) : Cardinality(HistoryOf("player", p, g)) = 1

\* C6: a step that records a 1v1 game raises the winner's wins, the loser's
\* losses and both players' games_played by one and changes both ratings.
C6_GameSettles ==
    [][ \A g \in DOMAIN games' \ DOMAIN games :
           \A p \in {games'[g].player1_id, games'[g].player2_id} :
              /\ players'[p].games_played = players[p].games_played + 1
              /\ RatingOf(players'[p]) # RatingOf(players[p])
              /\ IF p = games'[g].winner_id
                 THEN players'[p].wins = players[p].wins + 1
                 ELSE players'[p].losses = players[p].losses + 1 ]_vars

\* C7: update_player_ratings and update_team_ratings called with a winner
\* that is neither participant raise ValueError and change no player and no
\* team.
C7_InvalidWinner ==
    [][ ( /\ svc_n' = svc_n + 1
          /\ svc_call'.fn \in {"update_player_ratings", "update_team_ratings"}
          /\ svc_call'.winner \notin {svc_call'.a, svc_call'.b} )
        => ( /\ svc_res' = ValueError
             /\ players' = players
             /\ teams' = teams ) ]_vars

\* update_team_ratings has refused an unknown winner for teams whose members
\* have already played
C7_Witness ==
    /\ svc_res = ValueError
    /\ svc_call.fn = "update_team_ratings"
    /\ \E p \in Players : players[p].games_played > 0

IsCanonicalKey(k, a, b) ==
    /\ ~k.err
    /\ Len(k.key) = 2
    /\ k.key[1] < k.key[2]
    /\ {k.key[1], k.key[2]} = {a, b}

\* C8: for a # b, create_team_key(a, b) and create_team_key(b, a) are both the
\* pair (min, max); for a = b the call fails and returns no key.
C8_TeamKey ==
    /\ key_out.done =>
          IF key_in[1] = key_in[2]
          THEN key_out.err /\ key_out.key = <<>>
          ELSE IsCanonicalKey(key_out, key_in[1], key_in[2])
    /\ key_rev.done =>
          IF key_in[1] = key_in[2]
          THEN key_rev.err /\ key_rev.key = <<>>
          ELSE IsCanonicalKey(key_rev, key_in[1], key_in[2])
    /\ (key_out.done /\ key_rev.done) => key_out = key_rev

\* both orders of a pair given larger id first have been keyed
C8_Witness ==
    /\ key_out.done
    /\ key_rev.done
    /\ key_in[1] > key_in[2]

\* C9: every stored team has player1_id < player2_id and no two stored teams
\* have the same pair of players.
C9_TeamsCanonical ==
    /\ \A t \in DOMAIN teams : teams[t].player1_id < teams[t].player2_id
    /\ \A t, u \in DOMAIN teams :
          t # u => <<teams[t].player1_id, teams[t].player2_id>>
                      # <<teams[u].player1_id, teams[u].player2_id>>

\* two teams are stored and the database has refused a second row for a pair
C9_Witness ==
    /\ Cardinality(DOMAIN teams) >= 2
    /\ resp.op = "create_or_get_team"
    /\ resp.err = "IntegrityError"

TeamsWithKey(T, key) ==
    {t \in DOMAIN T : <<T[t].player1_id, T[t].player2_id>> = key}

\* C10: a pair has at most one team record, and a create_or_get_team or
\* create_team_game_from_players request that names a pair whose record
\* exists (both players active, no database failure) succeeds and uses that
\* record's id.
C10_CreatedOnceAndReused ==
    [][ /\ \A t, u \in DOMAIN teams' :
              t # u => <<teams'[t].player1_id, teams'[t].player2_id>>
                          # <<teams'[u].player1_id, teams'[u].player2_id>>
        /\ ( /\ done_n' = done_n + 1
             /\ resp'.op \in {"create_or_get_team",
                              "create_team_game_from_players"}
             /\ resp'.err # "Exception" )
           => \A i \in 1..Len(resp'.keys) :
                 \A t \in TeamsWithKey(teams, resp'.keys[i]) :
                    /\ resp'.status = 201
                    /\ resp'.ids[i] = t ]_vars

\* the game of player_id with exactly i - 1 newer games of player_id
NthRecent(player_id, i) ==
    CHOOSE g \in GamesOf(player_id) :
       Cardinality({h \in GamesOf(player_id) :
                       games[h].created_at > games[g].created_at}) = i - 1

\* whether player_id won its i-th most recent game
WonNthRecent(player_id, i) == games[NthRecent(player_id, i)].winner_id = player_id

PlayerStatsAnswered ==
    /\ stat_call.op = "get_player_statistics"
    /\ stat_out.status = 200

\* C11: the current streak of a player with games has the result of the most
\* recent game as its type and the length of the longest run of that result
\* at the head of the most-recent-first list as its count (at least 1); a
\* player with no game gets "No games played".
C11_CurrentStreak ==
    PlayerStatsAnswered =>
       LET pid == stat_call.player_id
           n   == Cardinality(GamesOf(pid))
           cs  == stat_out.current_streak
       IN  IF n = 0 THEN cs = NoGamesPlayed
           ELSE /\ cs.word = (IF WonNthRecent(pid, 1) THEN "win" ELSE "loss")
                /\ cs.count \in 1..n
                /\ \A i \in 1..cs.count :
                      WonNthRecent(pid, i) = WonNthRecent(pid, 1)
                /\ cs.count < n =>
                      WonNthRecent(pid, cs.count + 1) # WonNthRecent(pid, 1)

\* a streak of several games that an older game of the other result ends
C11_Witness ==
    /\ PlayerStatsAnswered
    /\ stat_out.total_games >= 4
    /\ stat_out.current_streak.count >= 2
    /\ stat_out.current_streak.count < stat_out.total_games - 1

\* the results of player_id's games, most recent first
RecentResults(player_id) ==
    [i \in 1..Cardinality(GamesOf(player_id)) |-> WonNthRecent(player_id, i)]

\* the length of the longest run of consecutive entries of results equal to
\* won, 0 when there is none
LongestRun(results, won) ==
    LET n    == Len(results)
        runs == {r \in (1..n) \X (1..n) :
                    /\ r[1] <= r[2]
                    /\ \A i \in r[1]..r[2] : results[i] = won}
        lens == {r[2] - r[1] + 1 : r \in runs}
    IN  IF lens = {} THEN 0
        ELSE CHOOSE m \in lens : \A l \in lens : l <= m

\* C12: longest_win_streak and longest_loss_streak are the lengths of the
\* longest runs of consecutive wins and of consecutive losses in the
\* player's games, 0 when there is no such result.
C12_LongestStreaks ==
    PlayerStatsAnswered =>
       /\ stat_out.longest_win_streak =
             LongestRun(RecentResults(stat_call.player_id), TRUE)
       /\ stat_out.longest_loss_streak =
             LongestRun(RecentResults(stat_call.player_id), FALSE)

\* both longest streaks are runs of several games and neither is the
\* current streak
C12_Witness ==
    /\ PlayerStatsAnswered
    /\ stat_out.longest_win_streak >= 3
    /\ stat_out.longest_loss_streak >= 2
    /\ stat_out.current_streak.count = 1

WinsAmongRecent(player_id, from, to) ==
    Cardinality({i \in from..to : WonNthRecent(player_id, i)})

\* C14: current_form is the results of the min(10, n) most recent games,
\* most recent first; form_trend is "improving" exactly when there are at
\* least 10 games and the 5 most recent have more wins than the 5 before
\* them, "declining" exactly when they have fewer, "stable" otherwise.
C14_RecentForm ==
    PlayerStatsAnswered =>
       LET pid  == stat_call.player_id
           n    == Cardinality(GamesOf(pid))
           form == stat_out.recent_form
       IN  /\ Len(form.current_form) = Min(10, n)
           /\ \A i \in 1..Min(10, n) :
                 form.current_form[i] = (IF WonNthRecent(pid, i) THEN "W" ELSE "L")
           /\ form.form_trend = "improving" <=>
                 (n >= 10 /\ WinsAmongRecent(pid, 1, 5) > WinsAmongRecent(pid, 6, 10))
           /\ form.form_trend = "declining" <=>
                 (n >= 10 /\ WinsAmongRecent(pid, 1, 5) < WinsAmongRecent(pid, 6, 10))
           /\ form.form_trend \in {"improving", "declining", "stable"}

\* a player with more than 10 games whose last 5 games have more wins than
\* the 5 before them
C14_Witness ==
    /\ PlayerStatsAnswered
    /\ stat_out.total_games > 10
    /\ stat_out.recent_form.form_trend = "improving"
    /\ stat_out.recent_form.games_analyzed = 10

\* the rating-history entries of player_id written within the last days
\* days before t (all of them for days = 0)
EntriesInWindow(player_id, t, days) ==
    {h \in rating_history :
        /\ h.player_id = player_id
        /\ days > 0 => h.created_at >= t - days * Day}

\* the entries of H no other entry of H precedes / follows
Earliest(H) == CHOOSE h \in H : \A o \in H : h.created_at <= o.created_at
Latest(H) == CHOOSE h \in H : \A o \in H : h.created_at >= o.created_at

TrendWindows == <<7, 30, 90, 0>>

\* C13: in each window (7, 30, 90 days, all time) with at least one entry of
\* the player, rating_change is the conservative rating after the latest
\* entry minus the conservative rating before the earliest one, to the two
\* decimals of the response; it is 0 when the window has no entry.
C13_TrendRatingChange ==
    PlayerStatsAnswered =>
       \A w \in 1..4 :
          LET H == EntriesInWindow(stat_call.player_id, now, TrendWindows[w])
          IN  stat_out.performance_trends[w].rating_change =
                 IF H = {} THEN 0
                 ELSE Round2(conservative_rating_after(Latest(H))
                                - conservative_rating_before(Earliest(H)))

\* C15: with at least one entry, peak_rating is the greatest
\* conservative_rating_after of the player's entries, to the two decimals of
\* the response, and peak_rating_date is the time of an entry that has it;
\* with no entry, peak_rating is the player's current conservative rating
\* and there is no peak_rating_date.
C15_PeakRating ==
    PlayerStatsAnswered =>
       LET H == EntriesInWindow(stat_call.player_id, now, 0)
           p == players[stat_call.player_id]
       IN  IF H = {}
           THEN /\ stat_out.peak_rating =
                      Round2(Conservative(p.trueskill_mu, p.trueskill_sigma))
                /\ stat_out.peak_rating_date = NoDate
           ELSE /\ \A h \in H :
                      stat_out.peak_rating >= Round2(conservative_rating_after(h))
                /\ \E h \in H :
                      /\ stat_out.peak_rating = Round2(conservative_rating_after(h))
                      /\ stat_out.peak_rating_date = DateOf(h.created_at)
                      /\ \A o \in H : conservative_rating_after(o)
                                         <= conservative_rating_after(h)

\* the peak was reached by an entry that is neither the first nor the last
\* and the current rating is below it
C15_Witness ==
    /\ PlayerStatsAnswered
    /\ Cardinality(EntriesInWindow(stat_call.player_id, now, 0)) = 3
    /\ \E h \in EntriesInWindow(stat_call.player_id, now, 0) :
          /\ h.id = 2
          /\ stat_out.peak_rating_date = DateOf(h.created_at)
    /\ stat_out.peak_rating > stat_out.conservative_rating

\* the 1v1 games whose two players are a and b, whatever their seats
GamesBetween(a, b) ==
    {g \in DOMAIN games : {games[g].player1_id, games[g].player2_id} = {a, b}}

\* C16: for two different existing players, total_games counts the games
\* whose two players are these two in either seat, player1_wins those won by
\* the first, the two win counts add up to total_games, the query with the
\* arguments swapped gives the same total with the win counts swapped, and
\* without a common game every count and percentage is 0 and there is no
\* streak.
C16_HeadToHead ==
    (/\ stat_call.op = "get_head_to_head_statistics"
     /\ stat_call.player1_id \in DOMAIN players
     /\ stat_call.player2_id \in DOMAIN players
     /\ stat_call.player1_id # stat_call.player2_id)
    =>
    LET a == stat_call.player1_id
        b == stat_call.player2_id
        G == GamesBetween(a, b)
    IN  /\ stat_out.status = 200
        /\ stat_out.total_games = Cardinality(G)
        /\ stat_out.player1_wins =
              Cardinality({g \in G : games[g].winner_id = a})
        /\ stat_out.player1_wins + stat_out.player2_wins = stat_out.total_games
        /\ \A gs \in GamesNewestFirst(H2HGames(b, a)) :
              LET swapped == get_head_to_head_statistics(b, a, gs)
              IN  /\ swapped.total_games = stat_out.total_games
                  /\ swapped.player1_wins = stat_out.player2_wins
                  /\ swapped.player2_wins = stat_out.player1_wins
        /\ G = {} =>
              /\ stat_out.total_games = 0
              /\ stat_out.player1_wins = 0
              /\ stat_out.player2_wins = 0
              /\ stat_out.player1_win_percentage = 0
              /\ stat_out.player2_win_percentage = 0
              /\ stat_out.current_streak = NoDate

\* the two players met in both seat orders, each won at least once, and
\* there is a game against a third player that is not counted
C16_Witness ==
    /\ stat_call.op = "get_head_to_head_statistics"
    /\ stat_out.status = 200
    /\ stat_out.player1_wins >= 1
    /\ stat_out.player2_wins >= 1
    /\ \E g, h \in DOMAIN games :
          /\ games[g].player1_id = stat_call.player1_id
          /\ games[g].player2_id = stat_call.player2_id
          /\ games[h].player1_id = stat_call.player2_id
          /\ games[h].player2_id = stat_call.player1_id
    /\ \E g \in DOMAIN games : 3 \in {games[g].player1_id, games[g].player2_id}

\* the number of eligible players whose sort key is greater than (strict)
\* or at least (not strict) the key of player p
Ahead(p, min_games, sort_by, truediv, strict) ==
    Cardinality({q \in Eligible(min_games) :
        IF strict
        THEN SortKey(players[q], sort_by, truediv)
                > SortKey(players[p], sort_by, truediv)
        ELSE SortKey(players[q], sort_by, truediv)
                >= SortKey(players[p], sort_by, truediv)})

\* C17: the entry at index i (from 0) of page p with page size s has rank
\* (p - 1) * s + i + 1, and this is a position the player has in the full
\* descending ordering of the active players that meet min_games: the page
\* holds exactly the positions after the offset, every entry is such a
\* player, no player is listed twice, more than rank - 1 players cannot be
\* strictly ahead of it and at least rank players are not behind it.
C17_LeaderboardRank ==
    stat_call.op = "get_enhanced_leaderboard" =>
       LET lb     == stat_out.leaderboard
           offset == (stat_call.page - 1) * stat_call.page_size
           E      == Eligible(stat_call.min_games)
       IN  /\ Len(lb) = Max(0, Min(stat_call.page_size, Cardinality(E) - offset))
           /\ \A i \in 1..Len(lb) :
                 /\ lb[i].rank = offset + i
                 /\ lb[i].player_id \in E
                 /\ players[lb[i].player_id].is_active
                 /\ players[lb[i].player_id].games_played >= stat_call.min_games
           /\ \A i, j \in 1..Len(lb) :
                 i # j => lb[i].player_id # lb[j].player_id
           /\ \E truediv \in BOOLEAN :
                 \A i \in 1..Len(lb) :
                    /\ Ahead(lb[i].player_id, stat_call.min_games,
                             stat_call.sort_by, truediv, TRUE) < lb[i].rank
                    /\ Ahead(lb[i].player_id, stat_call.min_games,
                             stat_call.sort_by, truediv, FALSE) >= lb[i].rank

\* a second page with an entry, while a deactivated player has a higher
\* rating than the player listed there
C17_Witness ==
    /\ stat_call.op = "get_enhanced_leaderboard"
    /\ stat_call.page = 2
    /\ stat_call.sort_by = "rating"
    /\ Len(stat_out.leaderboard) >= 1
    /\ stat_out.leaderboard[1].rank = stat_call.page_size + 1
    /\ \E q \in DOMAIN players :
          /\ ~players[q].is_active
          /\ Conservative(players[q].trueskill_mu, players[q].trueskill_sigma)
                > Conservative(players[stat_out.leaderboard[1].player_id].trueskill_mu,
                               players[stat_out.leaderboard[1].player_id].trueskill_sigma)

\* C18: in every summary response games_today <= games_this_week <=
\* games_this_month <= total_games, also when a game is recorded while the
\* request is served.
C18_SummaryCounts ==
    stat_call.op = "get_statistics_summary" =>
       /\ stat_out.games_today <= stat_out.games_this_week
       /\ stat_out.games_this_week <= stat_out.games_this_month
       /\ stat_out.games_this_month <= stat_out.total_games

\* C19: a statistics query that repeats the previous one, with nothing
\* written to players, games or rating history in between, returns the same
\* response: the same streaks, counts, trends, form strings, rankings and
\* selected top entries.
C19_Idempotent ==
    [][(/\ stat_n = 1
        /\ stat_n' = 2
        /\ stat_call' = stat_call
        /\ UNCHANGED <<players, games, rating_history>>)
       => stat_out' = stat_out]_vars

C21_SigmaNeverGrows ==
    [][(/\ svc_n' = svc_n + 1
        /\ svc_res' = "ok"
        /\ svc_call'.fn = "update_player_ratings")
       => \A p \in {svc_call'.a, svc_call'.b} :
             /\ players'[p].trueskill_sigma <= players[p].trueskill_sigma
             /\ players'[p].trueskill_sigma > 0]_vars

\* the two players of the answered match-quality call hold the same belief
SameBelief ==
    /\ stat_call.op = "get_match_quality"
    /\ players[stat_call.player1_id].trueskill_mu
          = players[stat_call.player2_id].trueskill_mu
    /\ players[stat_call.player1_id].trueskill_sigma
          = players[stat_call.player2_id].trueskill_sigma

\* C22 as stated: the match quality of two identical beliefs is 1.0.
C22_QualityOfSameIsOne == SameBelief => stat_out.quality = 1000

\* C22 amended: the match quality of two identical beliefs with stddev
\* sigma > 0 is beta / sqrt(beta^2 + sigma^2) (to the rounding of the
\* thousandths), strictly between 0 and 1 and the same for every mean.
C22_QualityOfSame ==
    SameBelief =>
       LET sigma == players[stat_call.player1_id].trueskill_sigma
           q     == stat_out.quality
           want  == isqrt(((BETA * BETA)
                              \div ((BETA * BETA + sigma * sigma) \div 1000))
                             * 1000)
       IN  /\ q > 0
           /\ q < 1000
           /\ q - want \in -2..2

\* the quality of two different players that hold the same belief, with a
\* mean other than the default one, has been computed
C22_Witness ==
    /\ SameBelief
    /\ stat_call.player1_id # stat_call.player2_id
    /\ players[stat_call.player1_id].trueskill_mu = 37500
    /\ players[stat_call.player1_id].trueskill_sigma = 4000

\* C23: update_players_from_team_game called with a winner_team_id that is
\* neither of the two teams fails with an error and leaves the ratings and
\* the games_played, wins and losses counters of all member players as
\* they were.
C23_MemberUpdateRejectsInvalidWinner ==
    [][(/\ svc_n' = svc_n + 1
        /\ svc_call'.fn = "update_players_from_team_game"
        /\ svc_call'.a # svc_call'.b
        /\ svc_call'.winner \notin {svc_call'.a, svc_call'.b})
       => /\ svc_res' = ValueError
          /\ \A t \in {svc_call'.a, svc_call'.b} :
                \A m \in Members(teams, t) : players'[m] = players[m]]_vars

\* C24: a create_team_game request that is refused (400 for equal team ids,
\* 404 for a missing or inactive team, 400 for a winner that is not one of
\* the two teams) leaves the recorded team games, every team row and every
\* player row as they were.
C24_RejectedWritesNothing ==
    [][(/\ done_n' = done_n + 1
        /\ resp'.op = "create_team_game"
        /\ resp'.status \in {400, 404})
       => /\ team_games' = team_games
          /\ teams' = teams
          /\ players' = players]_vars

\* a request is refused with 404 when a team game is recorded and a team
\* has been deactivated
C24_Witness ==
    /\ resp.op = "create_team_game"
    /\ resp.status = 404
    /\ DOMAIN team_games # {}
    /\ \E t \in DOMAIN teams : ~teams[t].is_active

\* the most recent of the games G
NewestOf(G) == CHOOSE g \in G : \A h \in G : games[h].created_at <= games[g].created_at

\* the games of G that are not older than g
NotOlder(G, g) == {h \in G : games[h].created_at >= games[g].created_at}

\* C25: when the two players share a game, the head-to-head streak belongs
\* to the winner of their most recent common game, and its length is the
\* number of their most recent common games won in a row by that player (at
\* least 1); games against other players do not count.
C25_HeadToHeadStreak ==
    (/\ stat_call.op = "get_head_to_head_statistics"
     /\ stat_call.player1_id \in DOMAIN players
     /\ stat_call.player2_id \in DOMAIN players
     /\ stat_call.player1_id # stat_call.player2_id
     /\ GamesBetween(stat_call.player1_id, stat_call.player2_id) # {})
    =>
    LET G == GamesBetween(stat_call.player1_id, stat_call.player2_id)
        w == games[NewestOf(G)].winner_id
    IN  /\ stat_out.current_streak # NoDate
        /\ stat_out.current_streak.player = w
        /\ stat_out.current_streak.count >= 1
        /\ stat_out.current_streak.count =
              Cardinality({g \in G :
                  \A h \in NotOlder(G, g) : games[h].winner_id = w})

\* a streak of one game: the second player won the most recent common game,
\* the first player won the one before, and a game against player 3 was
\* played in between
C25_Witness ==
    /\ stat_call.op = "get_head_to_head_statistics"
    /\ stat_out.status = 200
    /\ stat_out.current_streak # NoDate
    /\ stat_out.current_streak.player = stat_call.player2_id
    /\ stat_out.current_streak.count = 1
    /\ stat_out.total_games = 2
    /\ 3 \in {games[2].player1_id, games[2].player2_id}

\* the players listed on a leaderboard page
Listed(out) == {out.leaderboard[i].player_id : i \in 1..Len(out.leaderboard)}

\* C26: the leaderboard order is total and stable: on a page, players with
\* equal sort key appear in ascending identifier order, and page 2 read
\* after page 1 for the same records lists none of the players of page 1,
\* the two pages together listing every eligible player when there are at
\* most two pages of them.
C26_PagesPartition ==
    [][(/\ stat_n = 1
        /\ stat_n' = 2
        /\ stat_call.op = "get_enhanced_leaderboard"
        /\ stat_call' = [stat_call EXCEPT !.page = 2]
        /\ UNCHANGED <<players, games>>)
       => /\ Listed(stat_out) \cap Listed(stat_out') = {}
          /\ Cardinality(Eligible(stat_call.min_games)) <= 2 * stat_call.page_size
                => Listed(stat_out) \union Listed(stat_out')
                      = Eligible(stat_call.min_games)
          /\ \E truediv \in BOOLEAN :
                \A i, j \in 1..Len(stat_out.leaderboard) :
                   (/\ i < j
                    /\ SortKey(players[stat_out.leaderboard[i].player_id],
                               stat_call.sort_by, truediv)
                         = SortKey(players[stat_out.leaderboard[j].player_id],
                                   stat_call.sort_by, truediv))
                   => stat_out.leaderboard[i].player_id
                         < stat_out.leaderboard[j].player_id]_vars

C28_FourDistinctPlayers ==
    \A g \in DOMAIN team_games :
       Members(teams, team_games[g].team1_id)
          \cap Members(teams, team_games[g].team2_id) = {}

\* C29: once a player has been deactivated, no later request records a game
\* or a team game in which that player takes part, and no later settle
\* changes the player's rating or counters, also when the player is still a
\* member of an active team.
C29_InactivePlayersUntouched ==
    [][\A p \in DOMAIN players :
          ~players[p].is_active =>
             /\ players'[p] = players[p]
             /\ \A g \in DOMAIN games' \ DOMAIN games :
                   p \notin {games'[g].player1_id, games'[g].player2_id}
             /\ \A g \in DOMAIN team_games' \ DOMAIN team_games :
                   p \notin Members(teams', team_games'[g].team1_id)
                            \union Members(teams', team_games'[g].team2_id)]_vars

\* C30: for a player with at least one game the current streak is not
\* longer than the longest streak of its type (longest_win_streak for a
\* win streak, longest_loss_streak for a loss streak), and the two longest
\* streaks together are not longer than the history.
C30_StreaksAgree ==
    (PlayerStatsAnswered /\ stat_out.total_games > 0) =>
       /\ stat_out.current_streak # NoGamesPlayed
       /\ stat_out.current_streak.word = "win" =>
             stat_out.current_streak.count <= stat_out.longest_win_streak
       /\ stat_out.current_streak.word = "loss" =>
             stat_out.current_streak.count <= stat_out.longest_loss_streak
       /\ stat_out.longest_win_streak + stat_out.longest_loss_streak
             <= stat_out.total_games

\* a current loss streak that equals the longest loss streak, after an
\* earlier win streak, the two longest streaks filling the whole history
C30_Witness ==
    /\ PlayerStatsAnswered
    /\ stat_out.total_games = 5
    /\ stat_out.current_streak.word = "loss"
    /\ stat_out.current_streak.count = 2
    /\ stat_out.longest_loss_streak = 2
    /\ stat_out.longest_win_streak = 3
====
